---- MODULE Spec2Model ----
(***************************************************************************)
(* Model of the decision and interaction pipeline of HingeAutoBot: the     *)
(* decision engine (src/app/profile_analyzer.py), the device manager, the  *)
(* UI detector, the interaction controller and the control loop.           *)
(* Python strings are sequences of one-character strings, so that          *)
(* str.lower, the `in` substring test, str.find / str.rfind, re.findall    *)
(* and json.loads are computed character by character as the code does.    *)
(* A float is the integer number of hundredths (0.9 is 90).                *)
(***************************************************************************)
EXTENDS Integers, Sequences, FiniteSets, TLC

VARIABLES
    openai_client,   \* ProfileAnalyzer.openai_client is set (a credential was configured)
    criteria,        \* ProfileAnalyzer.criteria
    profile_text,    \* the profile_text argument
    screenshot_path, \* the screenshot_path argument
    requests,        \* the models asked for a completion so far, in order
    age_match,     \* the local age_match of _fallback_analysis: <<>> until it is assigned
    ai_reply,      \* what the AI collaborator answered: prose, an object, prose
    response_text, \* message.content of the answer, the text _parse_ai_response gets
    decision,      \* the ProfileDecision returned
    pc,            \* position in the call
    device,        \* DeviceManager.device is set (a device is connected)
    screen_width,  \* DeviceManager.screen_width
    screen_height, \* DeviceManager.screen_height
    shell_log,     \* the commands forwarded to device.shell so far, in order
    ui_client,     \* UIDetector.openai_client is set
    image,         \* the file at screenshot_path: what open() and Image.open() find
    vision_reply,  \* what the vision collaborator answered to the last request
    button_type,   \* the button_type argument of _find_button_ai
    located,       \* the value _find_button_ai returned
    calls,         \* the calls InteractionController made on its collaborators, in order
    comment,       \* the local comment of _comment_on_profile
    result,        \* the value returned by the operation under way
    ocr_text,      \* what pytesseract.image_to_string read from the screenshot
    new_criteria,  \* the new_criteria argument of the last update_criteria: <<>> before one
    got_criteria,  \* what the last get_criteria returned: <<>> before one
    max_wait,      \* the max_wait argument of wait_for_app_ready
    wait_i,        \* the polls of wait_for_app_ready begun so far (its loop variable i, plus one)
    bot_delay,     \* config['bot_delay'], the seconds run() sleeps between two iterations
    profile_info   \* the mapping extract_profile_info builds and returns

\* the variables of DeviceManager, UIDetector, InteractionController and TextExtractor
interaction_vars == <<device, screen_width, screen_height, shell_log, ui_client, image,
                      vision_reply, button_type, located, calls, comment, result, ocr_text,
                      max_wait, new_criteria, got_criteria, wait_i, bot_delay, profile_info>>

vars == <<openai_client, criteria, profile_text, screenshot_path, requests,
          age_match, ai_reply, response_text, decision, pc, interaction_vars>>

(***************************************************************************)
(* Bounds of the model.                                                    *)
(***************************************************************************)
\* longest profile text drawn by InitFallback
MaxLen == 5
\* most words of prose before, and after, the object of an AI answer
MaxProse == 1

(***************************************************************************)
(* Python values: str, None, numbers (hundredths) and bool.                *)
(***************************************************************************)
PyStr(chars) == [t |-> "str", s |-> chars, n |-> 0]
PyNone == [t |-> "none", s |-> <<>>, n |-> 0]
PyNum(k) == [t |-> "num", s |-> <<>>, n |-> k]
PyBool(b) == [t |-> "bool", s |-> <<>>, n |-> IF b THEN 100 ELSE 0]

\* bool(v) of a str or None, as used by `if not comment`
Truthy(v) == IF v.t = "str" THEN v.s # <<>> ELSE v.t # "none" /\ v.n # 0

(***************************************************************************)
(* Characters and the str methods the analyzer uses.                       *)
(***************************************************************************)
UpperChars == <<"A","B","C","D","E","F","G","H","I","J","K","L","M",
                "N","O","P","Q","R","S","T","U","V","W","X","Y","Z">>
LowerChars == <<"a","b","c","d","e","f","g","h","i","j","k","l","m",
                "n","o","p","q","r","s","t","u","v","w","x","y","z">>
DigitChars == <<"0","1","2","3","4","5","6","7","8","9">>

UpperSet == {UpperChars[i] : i \in 1..Len(UpperChars)}
LowerSet == {LowerChars[i] : i \in 1..Len(LowerChars)}
DigitSet == {DigitChars[i] : i \in 1..Len(DigitChars)}

\* the lowercase letter of each uppercase letter
LowerMap == [c \in UpperSet |-> LowerChars[CHOOSE i \in 1..Len(UpperChars) : UpperChars[i] = c]]
\* int(c) of each digit
DigitMap == [c \in DigitSet |-> (CHOOSE i \in 1..Len(DigitChars) : DigitChars[i] = c) - 1]

IsDigit(c) == c \in DigitSet
DigitVal(c) == DigitMap[c]
IsLetter(c) == c \in UpperSet \/ c \in LowerSet
\* \w of the re module: letters, digits and the underscore
IsWordChar(c) == IsLetter(c) \/ IsDigit(c) \/ c = "_"

LowerChar(c) == IF c \in UpperSet THEN LowerMap[c] ELSE c
\* str.lower()
Lower(s) == [i \in 1..Len(s) |-> LowerChar(s[i])]

\* `sub in s`
Contains(sub, s) == \E i \in 0..(Len(s) - Len(sub)) : SubSeq(s, i + 1, i + Len(sub)) = sub

\* s.find(c) and s.rfind(c) of one character: 0-based, -1 when absent
Find(c, s) == IF \E i \in 1..Len(s) : s[i] = c
              THEN (CHOOSE i \in 1..Len(s) : s[i] = c /\ \A j \in 1..(i - 1) : s[j] # c) - 1
              ELSE -1
Rfind(c, s) == IF \E i \in 1..Len(s) : s[i] = c
               THEN (CHOOSE i \in 1..Len(s) : s[i] = c /\ \A j \in (i + 1)..Len(s) : s[j] # c) - 1
               ELSE -1
\* s[a:b] for a, b >= 0
Slice(s, a, b) == SubSeq(s, a + 1, IF b < Len(s) THEN b ELSE Len(s))

\* str(n) of a non-negative int
RECURSIVE IntToStr(_)
IntToStr(n) == IF n < 10 THEN <<DigitChars[n + 1]>>
               ELSE IntToStr(n \div 10) \o <<DigitChars[(n % 10) + 1]>>

\* dict.get(k, default)
DictGet(d, k, default) == IF k \in DOMAIN d THEN d[k] ELSE default

(***************************************************************************)
(* ProfileDecision and the literals of the analyzer.                       *)
(***************************************************************************)
ProfileDecision(a, c, r, m) == [action |-> a, confidence |-> c, reason |-> r, comment |-> m]
\* the value None where a str is expected: every str method raises on it
NoneText == <<"None">>
NoDecision == [action |-> PyNone, confidence |-> 0 - 1, reason |-> PyNone, comment |-> PyNone]

s_like == <<"l","i","k","e">>
s_pass == <<"p","a","s","s">>
s_comment == <<"c","o","m","m","e","n","t">>
s_deal_breaker_found == <<"D","e","a","l"," ","b","r","e","a","k","e","r"," ","f","o","u","n","d",":"," ">>
s_good_match == <<"G","o","o","d"," ","m","a","t","c","h",":"," ">>
s_shared_interests == <<" ","s","h","a","r","e","d"," ","i","n","t","e","r","e","s","t","s">>
s_some_shared == <<"S","o","m","e"," ","s","h","a","r","e","d"," ","i","n","t","e","r","e","s","t","s",",",
                   " ","w","o","r","t","h"," ","a"," ","c","o","n","v","e","r","s","a","t","i","o","n">>
s_things_in_common == <<"H","e","y","!"," ","I"," ","n","o","t","i","c","e","d"," ","w","e"," ","h","a","v","e",
                        " ","s","o","m","e"," ","t","h","i","n","g","s"," ","i","n"," ","c","o","m","m","o","n",
                        " ","U+1F60A">>
s_action == <<"a","c","t","i","o","n">>
s_confidence == <<"c","o","n","f","i","d","e","n","c","e">>
s_reason == <<"r","e","a","s","o","n">>
s_no_reason == <<"N","o"," ","r","e","a","s","o","n"," ","p","r","o","v","i","d","e","d">>
s_ai_completed == <<"A","I"," ","a","n","a","l","y","s","i","s"," ","c","o","m","p","l","e","t","e","d">>
s_caught_attention == <<"H","e","y","!"," ","Y","o","u","r"," ","p","r","o","f","i","l","e"," ","c","a","u","g","h","t"," ","m","y"," ","a","t","t","e","n","t","i","o","n"," ","U+1F60A">>
s_analysis_failed == <<"A","n","a","l","y","s","i","s"," ","f","a","i","l","e","d">>
s_limited == <<"L","i","m","i","t","e","d"," ","c","o","m","p","a","t","i","b","i","l","i","t","y">>

\* no answer of the AI collaborator
NoReply == [pre |-> <<>>, shape |-> "none", fields |-> <<>>, post |-> <<>>]

(***************************************************************************)
(* The other components before any call on them.  A lookup returns None   *)
(* or a tuple (x, y); the screenshot is a file that is missing, empty, not *)
(* an image, or an image of some size; the vision collaborator's answer is *)
(* kept as it was composed: leading whitespace, fields joined by commas,   *)
(* trailing whitespace.                                                    *)
(***************************************************************************)
NotFound == [found |-> FALSE, x |-> 0, y |-> 0]
Point(px, py) == [found |-> TRUE, x |-> px, y |-> py]
NoImage == [file |-> "missing", width |-> 0, height |-> 0]
NoVision == [outcome |-> "unasked", lead |-> <<>>, parts |-> <<>>, trail |-> <<>>]

\* 'bot_delay': 3 of the default configuration
DefaultBotDelay == 3

\* DeviceManager.__init__, UIDetector.__init__ without a credential and the
\* controller before execute_decision is called
InteractionIdle ==
    /\ device = FALSE /\ screen_width = 0 /\ screen_height = 0 /\ shell_log = <<>>
    /\ ui_client = FALSE /\ image = NoImage /\ vision_reply = NoVision
    /\ button_type = <<>> /\ located = NotFound
    /\ calls = <<>> /\ comment = PyNone /\ result = PyNone /\ ocr_text = <<>>
    /\ new_criteria = <<>> /\ got_criteria = <<>> /\ max_wait = 0 /\ wait_i = 0

(***************************************************************************)
(* ProfileAnalyzer._check_age_match                                        *)
(***************************************************************************)
\* the pattern without its \b anchors: any two adjacent digits
AgePositions_NoBoundary(text) ==
    {i \in 1..(Len(text) - 1) : IsDigit(text[i]) /\ IsDigit(text[i + 1])}

\* re.findall(r'\b(\d{2})\b', text): the start positions of the matches
AgePositions(text) ==
    {i \in 1..(Len(text) - 1) :
        /\ IsDigit(text[i]) /\ IsDigit(text[i + 1])
        /\ (i = 1 \/ ~IsWordChar(text[i - 1]))
        /\ (i + 1 = Len(text) \/ ~IsWordChar(text[i + 2]))}

\* int(age_str) of each match
Ages(text) == {10 * DigitVal(text[i]) + DigitVal(text[i + 1]) : i \in AgePositions(text)}

\* the range test with the upper bound excluded
_check_age_match_ExclusiveMax(crit, text) ==
    LET ages == Ages(text)
        min_age == DictGet(crit, "min_age", 21)
        max_age == DictGet(crit, "max_age", 35)
    IN  IF ages = {} THEN TRUE
        ELSE \E age \in ages : min_age <= age /\ age < max_age

_check_age_match(crit, text) ==
    LET ages == Ages(text)
        min_age == DictGet(crit, "min_age", 21)
        max_age == DictGet(crit, "max_age", 35)
    IN  IF ages = {} THEN TRUE
        ELSE \E age \in ages : min_age <= age /\ age <= max_age

(***************************************************************************)
(* ProfileAnalyzer._fallback_analysis                                      *)
(***************************************************************************)
\* the deal breaker compared as written, without breaker.lower()
BreakerHits_TermAsWritten(crit, text) ==
    LET deal_breakers == DictGet(crit, "deal_breakers", <<>>)
    IN  {i \in 1..Len(deal_breakers) : Contains(deal_breakers[i], Lower(text))}

\* indexes of the deal breakers found in the lowercased text
BreakerHits(crit, text) ==
    LET deal_breakers == DictGet(crit, "deal_breakers", <<>>)
    IN  {i \in 1..Len(deal_breakers) : Contains(Lower(deal_breakers[i]), Lower(text))}

\* the interest compared as written, without interest.lower()
InterestMatches_TermAsWritten(crit, text) ==
    LET interests == DictGet(crit, "preferred_interests", <<>>)
    IN  Cardinality({i \in 1..Len(interests) : Contains(interests[i], Lower(text))})

\* sum(1 for interest in interests if interest.lower() in text_lower)
InterestMatches(crit, text) ==
    LET interests == DictGet(crit, "preferred_interests", <<>>)
    IN  Cardinality({i \in 1..Len(interests) : Contains(Lower(interests[i]), Lower(text))})

\* the comment row taken from zero matches on
MatchDecision_CommentFromZero(interest_matches, age_ok) ==
    IF interest_matches >= 2 /\ age_ok
    THEN ProfileDecision(PyStr(s_like), 70,
                         PyStr(s_good_match \o IntToStr(interest_matches) \o s_shared_interests),
                         PyNone)
    ELSE IF interest_matches >= 0
    THEN ProfileDecision(PyStr(s_comment), 60, PyStr(s_some_shared), PyStr(s_things_in_common))
    ELSE ProfileDecision(PyStr(s_pass), 50, PyStr(s_limited), PyNone)

\* lines 283-302: the decision table on the two match results
MatchDecision(interest_matches, age_ok) ==
    IF interest_matches >= 2 /\ age_ok
    THEN ProfileDecision(PyStr(s_like), 70,
                         PyStr(s_good_match \o IntToStr(interest_matches) \o s_shared_interests),
                         PyNone)
    ELSE IF interest_matches >= 1
    THEN ProfileDecision(PyStr(s_comment), 60, PyStr(s_some_shared), PyStr(s_things_in_common))
    ELSE ProfileDecision(PyStr(s_pass), 50, PyStr(s_limited), PyNone)

\* lines 268-274: the first deal breaker, in the order of the list, that the text holds
BreakerDecision_LastHit(crit, text) ==
    LET deal_breakers == DictGet(crit, "deal_breakers", <<>>)
        hits == BreakerHits(crit, text)
        first == CHOOSE i \in hits : \A j \in hits : i >= j
    IN  ProfileDecision(PyStr(s_pass), 90,
                        PyStr(s_deal_breaker_found \o deal_breakers[first]), PyNone)

BreakerDecision(crit, text) ==
    LET deal_breakers == DictGet(crit, "deal_breakers", <<>>)
        hits == BreakerHits(crit, text)
        first == CHOOSE i \in hits : \A j \in hits : i <= j
    IN  ProfileDecision(PyStr(s_pass), 90,
                        PyStr(s_deal_breaker_found \o deal_breakers[first]), PyNone)

\* profile_text.lower() raises on None: the except branch of lines 304-310
_fallback_analysis(crit, text) ==
    IF text = NoneText
    THEN ProfileDecision(PyStr(s_pass), 30, PyStr(s_analysis_failed), PyNone)
    ELSE IF BreakerHits(crit, text) # {}
    THEN BreakerDecision(crit, text)
    ELSE MatchDecision(InterestMatches(crit, text), _check_age_match(crit, text))

(***************************************************************************)
(* Inputs of the fallback analysis.                                        *)
(***************************************************************************)
BoundedSeq(S, n) == UNION {[1..m -> S] : m \in 0..n}

TextChars == {"a", "B", "2", "7", " "}

AgeRanges == {<<21, 35>>, <<22, 27>>, <<28, 72>>}
InterestLists == {<<>>, <<<<"A">>>>, <<<<"a">>, <<"b">>>>, <<<<"a", "b">>, <<"A">>, <<"b", " ">>>>}
BreakerLists == {<<>>, <<<<"b">>>>, <<<<"B", "a">>, <<"A">>>>}

CriteriaSet ==
    {[min_age |-> r[1], max_age |-> r[2], preferred_interests |-> il, deal_breakers |-> bl] :
        r \in AgeRanges, il \in InterestLists, bl \in BreakerLists}

InitFallback ==
    /\ InteractionIdle
    /\ bot_delay = DefaultBotDelay /\ profile_info = <<>>
    /\ openai_client = FALSE
    /\ screenshot_path = PyNone
    /\ requests = <<>>
    /\ criteria \in CriteriaSet
    /\ profile_text \in BoundedSeq(TextChars, MaxLen)
    /\ age_match = <<>>
    /\ ai_reply = NoReply
    /\ response_text = <<>>
    /\ decision = NoDecision
    /\ pc = "fallback"

\* the analysis, as the variant that uses up the deal-breakers it looked for
FallbackAnalysis_UsesUpBreakers ==
    /\ pc = "fallback"
    /\ decision' = _fallback_analysis(criteria, profile_text)
    /\ age_match' = IF profile_text = NoneText \/ BreakerHits(criteria, profile_text) # {}
                    THEN <<>>
                    ELSE <<_check_age_match(criteria, profile_text)>>
    /\ pc' = "done"
    /\ criteria' = [criteria EXCEPT !.deal_breakers = <<>>]
    /\ UNCHANGED <<openai_client, profile_text, screenshot_path, requests,
                   ai_reply, response_text>>
    /\ UNCHANGED interaction_vars

FallbackAnalysis ==
    /\ pc = "fallback"
    /\ decision' = _fallback_analysis(criteria, profile_text)
    /\ age_match' = IF profile_text = NoneText \/ BreakerHits(criteria, profile_text) # {}
                    THEN <<>>
                    ELSE <<_check_age_match(criteria, profile_text)>>
    /\ pc' = "done"
    /\ UNCHANGED <<openai_client, criteria, profile_text, screenshot_path, requests,
                   ai_reply, response_text>>
    /\ UNCHANGED interaction_vars

NextFallback == FallbackAnalysis

SpecFallback == InitFallback /\ [][NextFallback]_vars

(***************************************************************************)
(* json.loads, on the JSON that the answers drawn below use: objects,      *)
(* strings without escape sequences, numbers without exponent, null, true  *)
(* and false, with whitespace between tokens.  Arrays, escapes, exponents  *)
(* and NaN/Infinity are not modelled and are never drawn.  A number is     *)
(* read to two decimals.  A result is [ok, pos, val, isdict, d]: pos is    *)
(* the position after the value, d the mapping of an object.               *)
(***************************************************************************)
WsChars == {" ", "\t", "\n", "\r"}
PyDict == [t |-> "dict", s |-> <<>>, n |-> 0]

JsonFail == [ok |-> FALSE, pos |-> 0, val |-> PyNone, isdict |-> FALSE, d |-> <<>>]
JsonOk(p, v) == [ok |-> TRUE, pos |-> p, val |-> v, isdict |-> FALSE, d |-> <<>>]
JsonObj(p, m) == [ok |-> TRUE, pos |-> p, val |-> PyDict, isdict |-> TRUE, d |-> m]

RECURSIVE SkipWs(_, _)
SkipWs(s, i) == IF i <= Len(s) /\ s[i] \in WsChars THEN SkipWs(s, i + 1) ELSE i

\* the position after the run of digits that starts at i
RECURSIVE DigitsEnd(_, _)
DigitsEnd(s, i) == IF i <= Len(s) /\ IsDigit(s[i]) THEN DigitsEnd(s, i + 1) ELSE i

\* the number written by the digits s[a..b]
RECURSIVE DigitsVal(_, _, _)
DigitsVal(s, a, b) == IF b < a THEN 0 ELSE 10 * DigitsVal(s, a, b - 1) + DigitVal(s[b])

\* hundredths of the fraction digits s[a..b]
FractionVal(s, a, b) ==
    IF b < a THEN 0
    ELSE IF b = a THEN 10 * DigitVal(s[a])
    ELSE 10 * DigitVal(s[a]) + DigitVal(s[a + 1])

\* a string token at i (s[i] is the opening quote)
ParseString(s, i) ==
    LET closing == {j \in (i + 1)..Len(s) : s[j] = "\""}
    IN  IF closing = {} THEN JsonFail
        ELSE LET j == CHOOSE k \in closing : \A m \in closing : k <= m
             IN  IF \E k \in (i + 1)..(j - 1) : s[k] = "\\" \/ s[k] \in {"\t", "\n", "\r"}
                 THEN JsonFail
                 ELSE JsonOk(j + 1, PyStr(SubSeq(s, i + 1, j - 1)))

\* a number token at i: -?(0|[1-9]\d*)(\.\d+)?
ParseNumber(s, i) ==
    LET neg == s[i] = "-"
        a == IF neg THEN i + 1 ELSE i
    IN  IF a > Len(s) \/ ~IsDigit(s[a]) THEN JsonFail
        ELSE LET e == IF s[a] = "0" THEN a + 1 ELSE DigitsEnd(s, a)
                 frac == e + 1 <= Len(s) /\ s[e] = "." /\ IsDigit(s[e + 1])
                 f == IF frac THEN DigitsEnd(s, e + 1) ELSE e
                 h == 100 * DigitsVal(s, a, e - 1)
                      + (IF frac THEN FractionVal(s, e + 1, f - 1) ELSE 0)
             IN  JsonOk(f, PyNum(IF neg THEN 0 - h ELSE h))

ParseLiteral(s, i, word, v) ==
    IF SubSeq(s, i, i + Len(word) - 1) = word THEN JsonOk(i + Len(word), v) ELSE JsonFail

RECURSIVE ParseValue(_, _)
RECURSIVE ParseMembers(_, _, _)

\* the members of an object from the key at i on; acc holds the members read
ParseMembers(s, i, acc) ==
    IF i > Len(s) \/ s[i] # "\"" THEN JsonFail
    ELSE LET k == ParseString(s, i)
             c == SkipWs(s, k.pos)
         IN  IF ~k.ok \/ c > Len(s) \/ s[c] # ":" THEN JsonFail
             ELSE LET v == ParseValue(s, SkipWs(s, c + 1))
                      e == SkipWs(s, v.pos)
                      m == (k.val.s :> v.val) @@ acc
                  IN  IF ~v.ok \/ e > Len(s) THEN JsonFail
                      ELSE IF s[e] = "," THEN ParseMembers(s, SkipWs(s, e + 1), m)
                      ELSE IF s[e] = "}" THEN JsonObj(e + 1, m)
                      ELSE JsonFail

ParseValue(s, i) ==
    IF i > Len(s) THEN JsonFail
    ELSE IF s[i] = "\"" THEN ParseString(s, i)
    ELSE IF s[i] = "{"
         THEN LET j == SkipWs(s, i + 1)
              IN  IF j <= Len(s) /\ s[j] = "}" THEN JsonObj(j + 1, <<>>)
                  ELSE ParseMembers(s, j, <<>>)
    ELSE IF s[i] = "-" \/ IsDigit(s[i]) THEN ParseNumber(s, i)
    ELSE IF s[i] = "n" THEN ParseLiteral(s, i, <<"n","u","l","l">>, PyNone)
    ELSE IF s[i] = "t" THEN ParseLiteral(s, i, <<"t","r","u","e">>, PyBool(TRUE))
    ELSE IF s[i] = "f" THEN ParseLiteral(s, i, <<"f","a","l","s","e">>, PyBool(FALSE))
    ELSE JsonFail

\* json.loads(s): one value, whitespace around it, nothing else
JsonLoads(s) ==
    LET r == ParseValue(s, SkipWs(s, 1))
    IN  IF r.ok /\ SkipWs(s, r.pos) = Len(s) + 1 THEN r ELSE JsonFail

(***************************************************************************)
(* float(v): [ok, n], n in hundredths; ok is FALSE where float raises.     *)
(* A str is read as [sign] digits [. digits] with whitespace around it;    *)
(* exponents, inf and nan are not modelled and are never drawn.            *)
(***************************************************************************)
RECURSIVE EndTrim(_, _)
EndTrim(s, j) == IF j >= 1 /\ s[j] \in WsChars THEN EndTrim(s, j - 1) ELSE j

StrToFloat(s) ==
    LET a == SkipWs(s, 1)
        z == EndTrim(s, Len(s))
        signed == a <= z /\ s[a] \in {"-", "+"}
        b == IF signed THEN a + 1 ELSE a
        e == DigitsEnd(s, b)
        dot == e <= z /\ s[e] = "."
        f == IF dot THEN DigitsEnd(s, e + 1) ELSE e
        h == 100 * DigitsVal(s, b, e - 1) + (IF dot THEN FractionVal(s, e + 1, f - 1) ELSE 0)
    IN  IF a <= z /\ f = z + 1 /\ (e > b \/ (dot /\ f > e + 1))
        THEN [ok |-> TRUE, n |-> IF signed /\ s[a] = "-" THEN 0 - h ELSE h]
        ELSE [ok |-> FALSE, n |-> 0]

\* a confidence of None read as absent
Float_NoneAsDefault(v) ==
    IF v.t \in {"num", "bool"} THEN [ok |-> TRUE, n |-> v.n]
    ELSE IF v.t = "str" THEN StrToFloat(v.s)
    ELSE IF v.t = "none" THEN [ok |-> TRUE, n |-> 50]
    ELSE [ok |-> FALSE, n |-> 0]

Float(v) ==
    IF v.t \in {"num", "bool"} THEN [ok |-> TRUE, n |-> v.n]
    ELSE IF v.t = "str" THEN StrToFloat(v.s)
    ELSE [ok |-> FALSE, n |-> 0]

(***************************************************************************)
(* ProfileAnalyzer._parse_fallback_response                                *)
(***************************************************************************)
\* the keywords looked for in the text as received, without lower()
_parse_fallback_response_CaseSensitive(text) ==
    LET action == IF Contains(s_like, text) THEN s_like
                  ELSE IF Contains(s_comment, text) THEN s_comment
                  ELSE s_pass
    IN  ProfileDecision(PyStr(action), 60, PyStr(s_ai_completed),
                        IF action = s_comment THEN PyStr(s_caught_attention) ELSE PyNone)

_parse_fallback_response(text) ==
    LET response_lower == Lower(text)
        action == IF Contains(s_like, response_lower) THEN s_like
                  ELSE IF Contains(s_comment, response_lower) THEN s_comment
                  ELSE s_pass
    IN  ProfileDecision(PyStr(action), 60, PyStr(s_ai_completed),
                        IF action = s_comment THEN PyStr(s_caught_attention) ELSE PyNone)

(***************************************************************************)
(* ProfileAnalyzer._parse_ai_response                                      *)
(***************************************************************************)
\* a missing reason left without its default
DecisionFromData_NoReasonDefault(data, conf) ==
    ProfileDecision(DictGet(data, s_action, PyStr(s_pass)),
                    conf,
                    DictGet(data, s_reason, PyNone),
                    DictGet(data, s_comment, PyNone))

\* lines 228-233: the ProfileDecision of the parsed object
DecisionFromData(data, conf) ==
    ProfileDecision(DictGet(data, s_action, PyStr(s_pass)),
                    conf,
                    DictGet(data, s_reason, PyStr(s_no_reason)),
                    DictGet(data, s_comment, PyNone))

\* the end of the object taken at the first closing brace
JsonEnd_FirstBrace(text) == Find("}", text) + 1

\* line 222: end_idx
JsonEnd(text) == Rfind("}", text) + 1

_parse_ai_response(text) ==
    LET start_idx == Find("{", text)
        end_idx == JsonEnd(text)
    IN  IF start_idx # -1 /\ end_idx # -1
        THEN LET json_str == Slice(text, start_idx, end_idx)
                 data == JsonLoads(json_str)
                 conf == Float(DictGet(data.d, s_confidence, PyNum(50)))
             IN  IF data.ok /\ data.isdict /\ conf.ok
                 THEN DecisionFromData(data.d, conf.n)
                 ELSE _parse_fallback_response(text)
        ELSE _parse_fallback_response(text)

(***************************************************************************)
(* The answers of the AI collaborator drawn for the parser: some words of  *)
(* prose, then an object of the four keys (each absent or with one of its  *)
(* values) or a defective rendering of one, then prose.  An answer is      *)
(* rendered to the text of message.content.                                *)
(***************************************************************************)
s_comment_key == s_comment
Keys == <<"action", "confidence", "reason", "comment">>
KeyChars == [action |-> s_action, confidence |-> s_confidence,
             reason |-> s_reason, comment |-> s_comment_key]

Absent == [t |-> "absent", s |-> <<>>, n |-> 0]

ActionValues == {Absent, PyStr(s_like), PyStr(s_comment), PyStr(<<"s","u","p","e","r","l","i","k","e">>)}
ConfidenceValues == {Absent, PyNum(90), PyNum(150), PyStr(<<"0",".","9">>),
                     PyStr(<<"h","i","g","h">>), PyNone}
ReasonValues == {Absent, PyStr(<<"x">>), PyStr(<<"I"," ","l","i","k","e"," ","{","i","t","}">>)}
CommentValues == {Absent, PyStr(<<"H","i">>), PyNone}

\* the mapping of the keys that are present
FieldsOf(a, c, r, m) ==
    LET all == [action |-> a, confidence |-> c, reason |-> r, comment |-> m]
    IN  [k \in {x \in DOMAIN all : all[x] # Absent} |-> all[k]]

ObjectFields == {FieldsOf(a, c, r, m) : a \in ActionValues, c \in ConfidenceValues,
                                        r \in ReasonValues, m \in CommentValues}
\* the objects that are also drawn in a defective rendering
DefectFields == {FieldsOf(a, c, Absent, Absent) : a \in {PyStr(s_like), PyStr(s_comment)},
                                                  c \in {Absent, PyNum(90)}}
                \cup {FieldsOf(Absent, Absent, PyStr(<<"I"," ","l","i","k","e"," ","{","i","t","}">>), Absent)}
DefectShapes == {"trailing_comma", "single_quotes", "unclosed"}

ProseWords == {<<"o","k"," ">>, <<"u","n","L","I","K","E","l","y"," ">>,
               <<"C","o","m","m","e","n","t"," ">>, <<"{"," ">>, <<"}"," ">>}

RECURSIVE Flatten(_)
Flatten(ws) == IF ws = <<>> THEN <<>> ELSE Head(ws) \o Flatten(Tail(ws))

\* a number of hundredths in decimal notation
RenderNum(h) ==
    LET a == IF h < 0 THEN 0 - h ELSE h
        whole == IntToStr(a \div 100)
        frac == a % 100
    IN  (IF h < 0 THEN <<"-">> ELSE <<>>) \o whole \o
        (IF frac = 0 THEN <<>>
         ELSE IF frac % 10 = 0 THEN <<".", DigitChars[(frac \div 10) + 1]>>
         ELSE <<".", DigitChars[(frac \div 10) + 1], DigitChars[(frac % 10) + 1]>>)

RenderValue(v) ==
    IF v.t = "str" THEN <<"\"">> \o v.s \o <<"\"">>
    ELSE IF v.t = "num" THEN RenderNum(v.n)
    ELSE IF v.t = "bool" THEN (IF v.n = 0 THEN <<"f","a","l","s","e">> ELSE <<"t","r","u","e">>)
    ELSE <<"n","u","l","l">>

\* "key": value of the keys present, in the order of Keys, separated by ", "
RECURSIVE RenderMembers(_, _, _)
RenderMembers(fields, i, first) ==
    IF i > Len(Keys) THEN <<>>
    ELSE IF Keys[i] \notin DOMAIN fields THEN RenderMembers(fields, i + 1, first)
    ELSE (IF first THEN <<>> ELSE <<",", " ">>)
         \o <<"\"">> \o KeyChars[Keys[i]] \o <<"\"", ":", " ">> \o RenderValue(fields[Keys[i]])
         \o RenderMembers(fields, i + 1, FALSE)

RenderObject(fields) == <<"{">> \o RenderMembers(fields, 1, TRUE) \o <<"}">>

RenderBody(shape, fields) ==
    LET obj == RenderObject(fields)
    IN  IF shape = "none" THEN <<>>
        ELSE IF shape = "object" THEN obj
        ELSE IF shape = "trailing_comma" THEN SubSeq(obj, 1, Len(obj) - 1) \o <<",", "}">>
        ELSE IF shape = "single_quotes" THEN [i \in 1..Len(obj) |-> IF obj[i] = "\"" THEN "'" ELSE obj[i]]
        ELSE SubSeq(obj, 1, Len(obj) - 1)

Render(reply) == Flatten(reply.pre) \o RenderBody(reply.shape, reply.fields) \o Flatten(reply.post)

Bodies ==
    {[shape |-> "none", fields |-> <<>>]}
    \cup {[shape |-> "object", fields |-> f] : f \in ObjectFields}
    \cup {[shape |-> sh, fields |-> f] : sh \in DefectShapes, f \in DefectFields}

Replies ==
    {[pre |-> pre, shape |-> b.shape, fields |-> b.fields, post |-> post] :
        pre \in BoundedSeq(ProseWords, MaxProse), b \in Bodies,
        post \in BoundedSeq(ProseWords, MaxProse)}

InitParse ==
    /\ InteractionIdle
    /\ bot_delay = DefaultBotDelay /\ profile_info = <<>>
    /\ openai_client = TRUE
    /\ screenshot_path = PyNone
    /\ requests = <<>>
    /\ criteria \in {[min_age |-> 21, max_age |-> 35,
                      preferred_interests |-> <<>>, deal_breakers |-> <<>>]}
    /\ profile_text = <<>>
    /\ age_match = <<>>
    /\ ai_reply \in Replies
    /\ response_text = Render(ai_reply)
    /\ decision = NoDecision
    /\ pc = "parse"

ParseAiResponse ==
    /\ pc = "parse"
    /\ decision' = _parse_ai_response(response_text)
    /\ pc' = "done"
    /\ UNCHANGED <<openai_client, criteria, profile_text, screenshot_path, requests,
                   age_match, ai_reply, response_text>>
    /\ UNCHANGED interaction_vars

NextParse == ParseAiResponse

SpecParse == InitParse /\ [][NextParse]_vars

(***************************************************************************)
(* ProfileAnalyzer.analyze_profile and the two requests to the AI          *)
(* collaborator.  A request raises (connection, timeout, no credit), or    *)
(* returns a message whose content is None or a text.                      *)
(***************************************************************************)
s_png == <<"s",".","p","n","g">>

AnalyzeTexts == {<<>>, <<"a", "B", " ", "2", "7">>, <<"B">>, NoneText}
AnalyzeCriteria ==
    {[min_age |-> 21, max_age |-> 35, preferred_interests |-> <<<<"a">>, <<"b">>>>,
      deal_breakers |-> bl] : bl \in {<<>>, <<<<"b">>>>}}
AnalyzeReplies ==
    {[pre |-> <<>>, shape |-> b.shape, fields |-> b.fields, post |-> <<>>] : b \in Bodies}
    \cup {[pre |-> <<w>>, shape |-> "none", fields |-> <<>>, post |-> <<>>] : w \in ProseWords}

Init ==
    /\ InteractionIdle
    /\ bot_delay = DefaultBotDelay /\ profile_info = <<>>
    /\ openai_client \in BOOLEAN
    /\ criteria \in AnalyzeCriteria
    /\ profile_text \in AnalyzeTexts
    /\ screenshot_path \in {PyNone, PyStr(s_png)}
    /\ requests = <<>>
    /\ age_match = <<>>
    /\ ai_reply = NoReply
    /\ response_text = <<>>
    /\ decision = NoDecision
    /\ pc = "analyze_profile"

AnalyzeProfile_AlwaysAsks ==
    /\ pc = "analyze_profile"
    /\ pc' = IF Truthy(screenshot_path) THEN "vision" ELSE "text_only"
    /\ UNCHANGED <<openai_client, criteria, profile_text, screenshot_path, requests,
                   age_match, ai_reply, response_text, decision>>
    /\ UNCHANGED interaction_vars

\* lines 54-69: the choice of the path
AnalyzeProfile ==
    /\ pc = "analyze_profile"
    /\ pc' = IF ~openai_client THEN "fallback"
             ELSE IF Truthy(screenshot_path) THEN "vision"
             ELSE "text_only"
    /\ UNCHANGED <<openai_client, criteria, profile_text, screenshot_path, requests,
                   age_match, ai_reply, response_text, decision>>
    /\ UNCHANGED interaction_vars

\* one request of a completion from model; a failed request continues at next_pc
Request(model, next_pc) ==
    \/ \* chat.completions.create raises
       /\ requests' = Append(requests, model)
       /\ pc' = next_pc
       /\ UNCHANGED <<ai_reply, response_text, decision>>
    \/ \* message.content is None: both parsers raise AttributeError on it
       /\ requests' = Append(requests, model)
       /\ ai_reply' = NoReply
       /\ response_text' = NoneText
       /\ pc' = next_pc
       /\ UNCHANGED decision
    \/ \* message.content is a text
       \E reply \in AnalyzeReplies :
           /\ requests' = Append(requests, model)
           /\ ai_reply' = reply
           /\ response_text' = Render(reply)
           /\ decision' = _parse_ai_response(Render(reply))
           /\ pc' = "done"

AnalyzeProfileWithVision_StraightToFallback ==
    /\ pc = "vision"
    /\ \/ \* open(screenshot_path) raises: no request is made
          /\ pc' = "text_only"
          /\ UNCHANGED <<requests, ai_reply, response_text, decision>>
       \/ Request("gpt-4-vision-preview", "fallback")
    /\ UNCHANGED <<openai_client, criteria, profile_text, screenshot_path, age_match>>
    /\ UNCHANGED interaction_vars

\* lines 71-150
AnalyzeProfileWithVision ==
    /\ pc = "vision"
    /\ \/ \* open(screenshot_path) raises: no request is made
          /\ pc' = "text_only"
          /\ UNCHANGED <<requests, ai_reply, response_text, decision>>
       \/ Request("gpt-4-vision-preview", "text_only")
    /\ UNCHANGED <<openai_client, criteria, profile_text, screenshot_path, age_match>>
    /\ UNCHANGED interaction_vars

\* lines 152-178
AnalyzeProfileTextOnly ==
    /\ pc = "text_only"
    /\ Request("gpt-4", "fallback")
    /\ UNCHANGED <<openai_client, criteria, profile_text, screenshot_path, age_match>>
    /\ UNCHANGED interaction_vars

Next ==
    \/ AnalyzeProfile
    \/ AnalyzeProfileWithVision
    \/ AnalyzeProfileTextOnly
    \/ FallbackAnalysis

Spec == Init /\ [][Next]_vars

(***************************************************************************)
(* DeviceManager (src/app/device_manager.py).  device.shell receives the   *)
(* command or raises; shell_log keeps what was forwarded to it.  Every     *)
(* call on a collaborator is recorded in calls with its arguments, its     *)
(* outcome, and the position in shell_log of the command it forwarded (0   *)
(* when it forwarded none).                                                *)
(***************************************************************************)
\* most device commands of one run of the device manager on its own
MaxCmds == 2

\* the default of the duration parameter of swipe
DefaultDuration == 300
\* the dimensions assumed when `wm size` cannot be read
DefaultDimensions == <<1080, 1920>>

max(a, b) == IF a >= b THEN a ELSE b
min(a, b) == IF a <= b THEN a ELSE b

Clamp_NoLowerBound(v, size) == min(v, size - 1)

\* max(0, min(x, self.screen_width - 1))
Clamp(v, size) == max(0, min(v, size - 1))

ShellCmd(c, a, t) == [cmd |-> c, args |-> a, text |-> t]
Call(o, k, a, t, u, b, p) ==
    [op |-> o, kind |-> k, args |-> a, text |-> t, out |-> u, ok |-> b, at |-> p,
     asked |-> FALSE]

\* what a device call gives back: the value returned and the command forwarded
Forwarded(b, cmd) == [ok |-> b, cmds |-> <<cmd>>]
NotForwarded == [ok |-> FALSE, cmds |-> <<>>]

\* lines 105-122; shell_ok: device.shell returns rather than raises
tap(x, y, shell_ok) ==
    IF ~device THEN NotForwarded
    ELSE Forwarded(shell_ok,
                   ShellCmd("tap", <<Clamp(x, screen_width), Clamp(y, screen_height)>>, <<>>))

\* lines 124-143
swipe(start_x, start_y, end_x, end_y, duration, shell_ok) ==
    IF ~device THEN NotForwarded
    ELSE Forwarded(shell_ok,
                   ShellCmd("swipe", <<Clamp(start_x, screen_width), Clamp(start_y, screen_height),
                                       Clamp(end_x, screen_width), Clamp(end_y, screen_height),
                                       duration>>, <<>>))

\* text.replace(" ", "%s").replace("'", "\\'")
EscapeChar(c) == IF c = " " THEN <<"%", "s">> ELSE IF c = "'" THEN <<"\\", "'">> ELSE <<c>>
Escape(text) == Flatten([i \in 1..Len(text) |-> EscapeChar(text[i])])

\* lines 145-160; text is a Python value: replace raises on anything but a str
input_text(text, shell_ok) ==
    IF ~device \/ text.t # "str" THEN NotForwarded
    ELSE Forwarded(shell_ok, ShellCmd("text", <<>>, Escape(text.s)))

\* the guard on self.device left out
press_key_Unguarded(keycode, shell_ok) ==
    Forwarded(shell_ok, ShellCmd("keyevent", <<keycode>>, <<>>))

\* lines 162-175
press_key(keycode, shell_ok) ==
    IF ~device THEN NotForwarded
    ELSE Forwarded(shell_ok, ShellCmd("keyevent", <<keycode>>, <<>>))

\* lines 76-103; screencap_ok: device.screencap returns rather than raises;
\* write_ok: the file is written.  ok stands for a path returned
capture_screenshot(screencap_ok, write_ok) ==
    IF ~device THEN NotForwarded
    ELSE [ok |-> screencap_ok /\ write_ok,
          cmds |-> Forwarded(screencap_ok, ShellCmd("screencap", <<>>, <<>>)).cmds]

\* the position in shell_log of the command a call forwards
At(r) == IF r.cmds = <<>> THEN 0 ELSE Len(shell_log) + 1

DimensionSet == {<<1, 1>>, <<3, 2>>, DefaultDimensions}
TapInputs ==
    {<<0 - 1, 0 - 1>>, <<0, 0>>, <<screen_width - 1, screen_height - 1>>,
     <<screen_width, screen_height>>, <<screen_width - 1, screen_height>>,
     <<0 - 1, screen_height - 1>>}
SwipeInputs ==
    {<<0, 0, screen_width - 1, screen_height - 1>>,
     <<0 - 1, screen_height, screen_width, 0 - 1>>,
     <<screen_width - 1, 0, 0 - 5, screen_height + 5>>,
     <<screen_width, screen_height - 1, 0, 0>>}
TextInputs == {PyStr(<<"H", "i", " ", "'", "u">>), PyNone}
KeyInputs == {"KEYCODE_BACK"}

\* what the device manager never touches
idle_vars == <<openai_client, criteria, profile_text, screenshot_path, requests, age_match,
               ai_reply, response_text, decision, ui_client, image, vision_reply,
               button_type, located, comment, ocr_text, max_wait, new_criteria, got_criteria, wait_i, bot_delay, profile_info>>

InitDevice ==
    /\ openai_client = FALSE
    /\ criteria = [min_age |-> 21, max_age |-> 35, preferred_interests |-> <<>>,
                   deal_breakers |-> <<>>]
    /\ profile_text = <<>>
    /\ screenshot_path = PyNone
    /\ requests = <<>>
    /\ age_match = <<>>
    /\ ai_reply = NoReply
    /\ response_text = <<>>
    /\ decision = NoDecision
    /\ InteractionIdle
    /\ bot_delay = DefaultBotDelay /\ profile_info = <<>>
    /\ pc = "device"

\* lines 25-74: no device, or a new device object (nothing forwarded to it yet)
\* with the dimensions `wm size` gives, the defaults when it cannot be read
Connect ==
    /\ pc = "device"
    /\ \/ /\ result' = PyBool(FALSE)
          /\ UNCHANGED <<device, screen_width, screen_height, shell_log, calls>>
       \/ \E d \in DimensionSet :
             /\ device' = TRUE
             /\ screen_width' = d[1]
             /\ screen_height' = d[2]
             /\ shell_log' = <<>>
             /\ calls' = <<>>
             /\ result' = PyBool(TRUE)
    /\ UNCHANGED pc
    /\ UNCHANGED idle_vars

DeviceTap ==
    /\ pc = "device"
    /\ Len(calls) < MaxCmds
    /\ \E p \in TapInputs, shell_ok \in BOOLEAN :
          LET r == tap(p[1], p[2], shell_ok)
          IN  /\ shell_log' = shell_log \o r.cmds
              /\ calls' = Append(calls, Call("tap", <<>>, <<p[1], p[2]>>, PyNone, PyNone, r.ok, At(r)))
              /\ result' = PyBool(r.ok)
    /\ UNCHANGED <<device, screen_width, screen_height, pc>>
    /\ UNCHANGED idle_vars

DeviceSwipe ==
    /\ pc = "device"
    /\ Len(calls) < MaxCmds
    /\ \E p \in SwipeInputs, shell_ok \in BOOLEAN :
          LET r == swipe(p[1], p[2], p[3], p[4], DefaultDuration, shell_ok)
          IN  /\ shell_log' = shell_log \o r.cmds
              /\ calls' = Append(calls, Call("swipe", <<>>, p, PyNone, PyNone, r.ok, At(r)))
              /\ result' = PyBool(r.ok)
    /\ UNCHANGED <<device, screen_width, screen_height, pc>>
    /\ UNCHANGED idle_vars

DeviceInputText ==
    /\ pc = "device"
    /\ Len(calls) < MaxCmds
    /\ \E text \in TextInputs, shell_ok \in BOOLEAN :
          LET r == input_text(text, shell_ok)
          IN  /\ shell_log' = shell_log \o r.cmds
              /\ calls' = Append(calls, Call("input_text", <<>>, <<>>, text, PyNone, r.ok, At(r)))
              /\ result' = PyBool(r.ok)
    /\ UNCHANGED <<device, screen_width, screen_height, pc>>
    /\ UNCHANGED idle_vars

DevicePressKey ==
    /\ pc = "device"
    /\ Len(calls) < MaxCmds
    /\ \E keycode \in KeyInputs, shell_ok \in BOOLEAN :
          LET r == press_key(keycode, shell_ok)
          IN  /\ shell_log' = shell_log \o r.cmds
              /\ calls' = Append(calls, Call("press_key", <<>>, <<keycode>>, PyNone, PyNone,
                                             r.ok, At(r)))
              /\ result' = PyBool(r.ok)
    /\ UNCHANGED <<device, screen_width, screen_height, pc>>
    /\ UNCHANGED idle_vars

DeviceCaptureScreenshot ==
    /\ pc = "device"
    /\ Len(calls) < MaxCmds
    /\ \E screencap_ok \in BOOLEAN, write_ok \in BOOLEAN :
          LET r == capture_screenshot(screencap_ok, write_ok)
          IN  /\ shell_log' = shell_log \o r.cmds
              /\ calls' = Append(calls, Call("capture_screenshot", <<>>, <<>>, PyNone,
                                             IF r.ok THEN PyStr(s_png) ELSE PyNone, r.ok, At(r)))
              /\ result' = IF r.ok THEN PyStr(s_png) ELSE PyNone
    /\ UNCHANGED <<device, screen_width, screen_height, pc>>
    /\ UNCHANGED idle_vars

\* lines 181-187: `if self.device: self.device = None`, with or without one
Disconnect ==
    /\ pc = "device"
    /\ device' = FALSE
    /\ UNCHANGED <<screen_width, screen_height, shell_log, calls, result, pc>>
    /\ UNCHANGED idle_vars

NextDevice ==
    \/ Connect
    \/ DeviceTap
    \/ DeviceSwipe
    \/ DeviceInputText
    \/ DevicePressKey
    \/ DeviceCaptureScreenshot
    \/ Disconnect

SpecDevice == InitDevice /\ [][NextDevice]_vars

(***************************************************************************)
(* UIDetector (src/app/ui_detector.py).  A request to the vision           *)
(* collaborator raises, or returns a message whose content is None or a    *)
(* text.  The text is composed of fields joined by commas between leading  *)
(* and trailing whitespace; a field is the numeral of an integer or any    *)
(* other text.                                                             *)
(***************************************************************************)
\* most fields of an answer of the vision collaborator
MaxFields == 3

\* the height a profile screen must exceed in _fallback_profile_detection
MinProfileHeight == 1000

s_send == <<"s","e","n","d">>
s_text_input == <<"t","e","x","t","_","i","n","p","u","t">>
s_YES == <<"Y","E","S">>
s_NO == <<"N","O">>
s_NOT_FOUND == <<"N","O","T","_","F","O","U","N","D">>

ButtonTypes == {s_like, s_pass, s_comment, s_send, s_text_input}

\* the uppercase letter of each lowercase letter
UpperMap == [c \in LowerSet |-> UpperChars[CHOOSE i \in 1..Len(LowerChars) : LowerChars[i] = c]]
UpperChar(c) == IF c \in LowerSet THEN UpperMap[c] ELSE c
\* str.upper()
Upper(s) == [i \in 1..Len(s) |-> UpperChar(s[i])]

\* str.strip()
Strip(s) ==
    LET a == SkipWs(s, 1)
        z == EndTrim(s, Len(s))
    IN  IF a > z THEN <<>> ELSE SubSeq(s, a, z)

\* str.split(sep) of a one-character separator
RECURSIVE Split(_, _)
Split(s, sep) ==
    LET i == Find(sep, s)
    IN  IF i = -1 THEN <<s>>
        ELSE <<SubSeq(s, 1, i)>> \o Split(SubSeq(s, i + 2, Len(s)), sep)

IntFail == [ok |-> FALSE, n |-> 0]

\* int(s) of a str: whitespace around, a sign, digits with single underscores
\* between them; anything else raises ValueError
PyInt(s) ==
    LET t == Strip(s)
        signed == t # <<>> /\ t[1] \in {"-", "+"}
        body == IF signed THEN Tail(t) ELSE t
        digits == SelectSeq(body, IsDigit)
        wellformed ==
            /\ body # <<>>
            /\ \A k \in 1..Len(body) : IsDigit(body[k]) \/ body[k] = "_"
            /\ body[1] # "_" /\ body[Len(body)] # "_"
            /\ \A k \in 1..(Len(body) - 1) : ~(body[k] = "_" /\ body[k + 1] = "_")
    IN  IF ~wellformed THEN IntFail
        ELSE [ok |-> TRUE,
              n |-> IF signed /\ t[1] = "-" THEN 0 - DigitsVal(digits, 1, Len(digits))
                    ELSE DigitsVal(digits, 1, Len(digits))]

\* the fields of an answer and its text
IntField(pad, k) ==
    [int |-> TRUE, n |-> k,
     s |-> pad \o (IF k < 0 THEN <<"-">> \o IntToStr(0 - k) ELSE IntToStr(k))]
OtherField(chars) == [int |-> FALSE, n |-> 0, s |-> chars]

RECURSIVE Join(_, _)
Join(fields, sep) ==
    IF fields = <<>> THEN <<>>
    ELSE IF Len(fields) = 1 THEN fields[1].s
    ELSE fields[1].s \o <<sep>> \o Join(Tail(fields), sep)

VisionText(reply) == reply.lead \o Join(reply.parts, ",") \o reply.trail
VisionRaises == [outcome |-> "raises", lead |-> <<>>, parts |-> <<>>, trail |-> <<>>]
VisionNone == [outcome |-> "content_none", lead |-> <<>>, parts |-> <<>>, trail |-> <<>>]
VisionAnswer(l, p, t) == [outcome |-> "text", lead |-> l, parts |-> p, trail |-> t]

\* base64_image is None (open fails) or '' (no bytes): `if not base64_image`
NoBase64 == image.file \in {"missing", "empty"}
\* Image.open raises on a file that is no image
Opens == image.file = "image"

\* lines 188-198
_fallback_profile_detection ==
    Opens /\ image.height > image.width /\ image.height > MinProfileHeight

Ratio_Rounded(size, hundredths) == (size * hundredths + 50) \div 100

\* int(size * 0.8) and the like, for a ratio in hundredths
Ratio(size, hundredths) == (size * hundredths) \div 100

\* lines 200-226
_fallback_button_detection(btype) ==
    IF ~Opens THEN NotFound
    ELSE IF btype = s_like THEN Point(Ratio(image.width, 80), Ratio(image.height, 90))
    ELSE IF btype = s_pass THEN Point(Ratio(image.width, 20), Ratio(image.height, 90))
    ELSE IF btype = s_comment THEN Point(Ratio(image.width, 50), Ratio(image.height, 90))
    ELSE IF btype = s_send THEN Point(Ratio(image.width, 80), Ratio(image.height, 90))
    ELSE IF btype = s_text_input THEN Point(Ratio(image.width, 50), Ratio(image.height, 85))
    ELSE NotFound

\* a request whenever the image can be encoded, client or not
Asks_WithoutClient == ~NoBase64

\* whether a request is made at all: lines 40-47, 116-123
Asks == ui_client /\ ~NoBase64

\* lines 37-91; reply is what the request gives when one is made
is_profile_screen(reply) ==
    IF ~ui_client THEN _fallback_profile_detection
    ELSE IF NoBase64 THEN FALSE
    ELSE IF reply.outcome # "text" THEN _fallback_profile_detection
    ELSE Upper(Strip(VisionText(reply))) = s_YES

\* lines 166-173: x, y = map(int, result.split(','))
ParseCoordinates_FirstTwo(text) ==
    LET fields == Split(text, ",")
    IN  IF Len(fields) >= 2 /\ PyInt(fields[1]).ok /\ PyInt(fields[2]).ok
        THEN Point(PyInt(fields[1]).n, PyInt(fields[2]).n)
        ELSE NotFound

ParseCoordinates(text) ==
    LET fields == Split(text, ",")
    IN  IF Len(fields) = 2 /\ PyInt(fields[1]).ok /\ PyInt(fields[2]).ok
        THEN Point(PyInt(fields[1]).n, PyInt(fields[2]).n)
        ELSE NotFound

\* lines 113-177
_find_button_ai(btype, reply) ==
    IF ~ui_client THEN _fallback_button_detection(btype)
    ELSE IF NoBase64 THEN NotFound
    ELSE IF reply.outcome # "text" THEN _fallback_button_detection(btype)
    ELSE IF Strip(VisionText(reply)) = s_NOT_FOUND THEN NotFound
    ELSE ParseCoordinates(Strip(VisionText(reply)))

ImageSet ==
    {NoImage,
     [file |-> "empty", width |-> 0, height |-> 0],
     [file |-> "other", width |-> 0, height |-> 0],
     [file |-> "image", width |-> 1080, height |-> 1920],
     [file |-> "image", width |-> 1920, height |-> 1080],
     [file |-> "image", width |-> 601, height |-> 1000]}

Leads == {<<>>, <<" ">>}
Trails == {<<>>, <<"\n">>}

ProfileWords == {s_YES, s_NO, <<"y","e","s">>, <<"N","o">>, <<"M","A","Y","B","E">>,
                 <<"Y","E","S","!">>, <<>>}
ProfileAnswers ==
    {VisionRaises, VisionNone}
    \cup {VisionAnswer(l, <<OtherField(w)>>, t) : l \in Leads, w \in ProfileWords, t \in Trails}

Fields ==
    {IntField(<<>>, 540), IntField(<<" ">>, 12), IntField(<<>>, 0 - 5),
     OtherField(<<>>), OtherField(<<"a">>), OtherField(<<"1",".","5">>),
     OtherField(s_NOT_FOUND)}
ButtonAnswers ==
    {VisionRaises, VisionNone}
    \cup {VisionAnswer(l, p, t) : l \in Leads, p \in BoundedSeq(Fields, MaxFields), t \in Trails}

\* the reply of a request, NoVision when none is made
RepliesOf(answers) == IF Asks THEN answers ELSE {NoVision}
\* a call of the detector, recorded with whether it sent the request
Asking(call) == [call EXCEPT !.asked = Asks]

InitDetect ==
    /\ openai_client = FALSE
    /\ criteria = [min_age |-> 21, max_age |-> 35, preferred_interests |-> <<>>,
                   deal_breakers |-> <<>>]
    /\ profile_text = <<>>
    /\ screenshot_path = PyStr(s_png)
    /\ requests = <<>>
    /\ age_match = <<>>
    /\ ai_reply = NoReply
    /\ response_text = <<>>
    /\ decision = NoDecision
    /\ device = FALSE /\ screen_width = 0 /\ screen_height = 0 /\ shell_log = <<>>
    /\ ui_client \in BOOLEAN
    /\ image \in ImageSet
    /\ vision_reply = NoVision
    /\ button_type = <<>>
    /\ located = NotFound
    /\ calls = <<>> /\ comment = PyNone /\ result = PyNone /\ ocr_text = <<>>
    /\ new_criteria = <<>> /\ got_criteria = <<>> /\ max_wait = 0 /\ wait_i = 0 /\ bot_delay = DefaultBotDelay /\ profile_info = <<>>
    /\ pc \in {"is_profile_screen", "find_button"}

detector_idle_vars ==
    <<openai_client, criteria, profile_text, screenshot_path, requests, age_match, ai_reply,
      response_text, decision, device, screen_width, screen_height, shell_log, ui_client,
      image, calls, comment, ocr_text, max_wait, new_criteria, got_criteria, wait_i, bot_delay, profile_info>>

IsProfileScreen ==
    /\ pc = "is_profile_screen"
    /\ \E reply \in RepliesOf(ProfileAnswers) :
          /\ vision_reply' = reply
          /\ result' = PyBool(is_profile_screen(reply))
    /\ pc' = "classified"
    /\ UNCHANGED <<button_type, located>>
    /\ UNCHANGED detector_idle_vars

FindButton ==
    /\ pc = "find_button"
    /\ \E btype \in ButtonTypes, reply \in RepliesOf(ButtonAnswers) :
          /\ button_type' = btype
          /\ vision_reply' = reply
          /\ located' = _find_button_ai(btype, reply)
    /\ pc' = "located"
    /\ UNCHANGED result
    /\ UNCHANGED detector_idle_vars

NextDetect ==
    \/ IsProfileScreen
    \/ FindButton

SpecDetect == InitDetect /\ [][NextDetect]_vars

(***************************************************************************)
(* TextExtractor.extract_text and ProfileAnalyzer.generate_comment, the    *)
(* two calls _comment_on_profile makes when it is given no comment.        *)
(***************************************************************************)
\* the position after the run of non-whitespace characters that starts at i
RECURSIVE WordEnd(_, _)
WordEnd(s, i) == IF i <= Len(s) /\ s[i] \notin WsChars THEN WordEnd(s, i + 1) ELSE i

\* text.split(): the maximal runs of non-whitespace characters
RECURSIVE SplitWs(_)
SplitWs(s) ==
    LET a == SkipWs(s, 1)
        e == WordEnd(s, a)
    IN  IF a > Len(s) THEN <<>>
        ELSE <<SubSeq(s, a, e - 1)>> \o SplitWs(SubSeq(s, e, Len(s)))

\* ' '.join(words)
RECURSIVE JoinWords(_)
JoinWords(ws) ==
    IF ws = <<>> THEN <<>>
    ELSE IF Len(ws) = 1 THEN ws[1]
    ELSE ws[1] \o <<" ">> \o JoinWords(Tail(ws))

\* replace('|', 'I') and replace('0', 'O')
CleanChar_KeepZero(c) == IF c = "|" THEN "I" ELSE c

CleanChar(c) == IF c = "|" THEN "I" ELSE IF c = "0" THEN "O" ELSE c

\* text_extractor.py lines 112-129; no line break is left after the join, so
\* the removal of empty lines returns the one line as it is
_clean_text(text) ==
    CHOOSE cleaned \in {[i \in 1..Len(joined) |-> CleanChar(joined[i])] :
                            joined \in {JoinWords(SplitWs(text))}} : TRUE

\* the text as image_to_string read it, without _clean_text
extract_text_Uncleaned(ocr_ok) ==
    IF ~Opens \/ ~ocr_ok THEN <<>> ELSE ocr_text

\* text_extractor.py lines 20-48; ocr_ok: image_to_string returns rather than raises
extract_text(ocr_ok) ==
    IF ~Opens \/ ~ocr_ok THEN <<>> ELSE _clean_text(ocr_text)

GenRaises == [outcome |-> "raises", text |-> <<>>]
GenNone == [outcome |-> "content_none", text |-> <<>>]
GenText(t) == [outcome |-> "text", text |-> t]

\* profile_analyzer.py lines 339-377
generate_comment_EmptyOnFailure(text, reply) ==
    IF ~openai_client THEN s_caught_attention
    ELSE IF reply.outcome # "text" THEN <<>>
    ELSE Strip(reply.text)

generate_comment(text, reply) ==
    IF ~openai_client THEN s_caught_attention
    ELSE IF reply.outcome # "text" THEN s_caught_attention
    ELSE Strip(reply.text)

s_alex == <<"A","l","e","x",","," ","2","7",","," ","l","o","v","e","s"," ",
            "h","i","k","i","n","g"," ","a","n","d"," ",
            "t","e","c","h","n","o","l","o","g","y">>

OcrTexts == {<<>>, s_alex, <<" ","a"," "," ","l","0","v","e","\n","3","|","0"," ">>}
GenerateReplies ==
    IF openai_client
    THEN {GenRaises, GenNone, GenText(<<" ","N","i","c","e"," ","2","7","!","\n">>), GenText(<<>>)}
    ELSE {GenNone}

(***************************************************************************)
(* InteractionController.execute_decision (src/app/interaction_controller. *)
(* py).  time.sleep returns normally: the delays are the configured        *)
(* non-negative numbers.                                                   *)
(***************************************************************************)
s_superlike == <<"s","u","p","e","r","l","i","k","e">>

\* the answers of the vision collaborator to the lookups of an execution
LookupAnswers ==
    {VisionRaises, VisionNone,
     VisionAnswer(<<>>, <<OtherField(s_NOT_FOUND)>>, <<>>),
     VisionAnswer(<<>>, <<IntField(<<>>, 540), IntField(<<" ">>, 12)>>, <<"\n">>),
     VisionAnswer(<<>>, <<IntField(<<>>, 540)>>, <<>>)}

ExecDecisions ==
    {ProfileDecision(PyStr(a), 60, PyStr(<<"x">>), m) :
        a \in {s_like, s_pass, s_comment, s_superlike},
        m \in {PyNone, PyStr(<<>>), PyStr(<<"H", "i", " ", "2">>), PyNum(500)}}

InitExecute ==
    /\ openai_client \in BOOLEAN
    /\ criteria = [min_age |-> 21, max_age |-> 35, preferred_interests |-> <<>>,
                   deal_breakers |-> <<>>]
    /\ profile_text = <<>>
    /\ screenshot_path = PyStr(s_png)
    /\ requests = <<>>
    /\ age_match = <<>>
    /\ ai_reply = NoReply
    /\ response_text = <<>>
    /\ decision \in ExecDecisions
    /\ device \in BOOLEAN
    /\ screen_width = DefaultDimensions[1] /\ screen_height = DefaultDimensions[2]
    /\ shell_log = <<>>
    /\ ui_client \in BOOLEAN
    /\ image \in {NoImage, [file |-> "image", width |-> 1080, height |-> 1920]}
    /\ vision_reply = NoVision
    /\ button_type = <<>>
    /\ located = NotFound
    /\ calls = <<>> /\ comment = PyNone /\ result = PyNone
    /\ ocr_text \in OcrTexts
    /\ new_criteria = <<>> /\ got_criteria = <<>> /\ max_wait = 0 /\ wait_i = 0 /\ bot_delay = DefaultBotDelay /\ profile_info = <<>>
    /\ pc = "execute_decision"

\* what an execution never changes
exec_idle_vars ==
    <<openai_client, criteria, profile_text, screenshot_path, age_match, ai_reply,
      response_text, decision, device, screen_width, screen_height, ui_client, image,
      vision_reply, button_type, located, ocr_text, max_wait, new_criteria, got_criteria, wait_i, bot_delay, profile_info>>

\* the dispatch that passes on what it does not know
ExecuteDecision_PassesUnknown ==
    /\ pc = "execute_decision"
    /\ IF decision.action = PyStr(s_like) THEN pc' = "like" /\ UNCHANGED <<comment, result>>
       ELSE IF decision.action = PyStr(s_comment)
       THEN pc' = "comment" /\ comment' = decision.comment /\ UNCHANGED result
       ELSE pc' = "pass" /\ UNCHANGED <<comment, result>>
    /\ UNCHANGED <<calls, shell_log, requests>>
    /\ UNCHANGED exec_idle_vars

\* lines 32-49: the dispatch on decision.action
ExecuteDecision ==
    /\ pc = "execute_decision"
    /\ IF decision.action = PyStr(s_like) THEN pc' = "like" /\ UNCHANGED <<comment, result>>
       ELSE IF decision.action = PyStr(s_pass) THEN pc' = "pass" /\ UNCHANGED <<comment, result>>
       ELSE IF decision.action = PyStr(s_comment)
       THEN pc' = "comment" /\ comment' = decision.comment /\ UNCHANGED result
       ELSE pc' = "executed" /\ result' = PyBool(FALSE) /\ UNCHANGED comment
    /\ UNCHANGED <<calls, shell_log, requests>>
    /\ UNCHANGED exec_idle_vars

FoundCall(btype, b) ==
    Asking(Call("find", btype, IF b.found THEN <<b.x, b.y>> ELSE <<>>, screenshot_path,
                PyNone, b.found, 0))
TapCall(b, r) == Call("tap", <<>>, <<b.x, b.y>>, PyNone, PyNone, r.ok, At(r))

LocateAndTap_NoShortCircuit(btype, next_pc) ==
    \E reply \in RepliesOf(LookupAnswers), shell_ok \in BOOLEAN :
        \E b \in {_find_button_ai(btype, reply)} : \E r \in {tap(b.x, b.y, shell_ok)} :
            /\ calls' = IF b.found THEN calls \o <<FoundCall(btype, b), TapCall(b, r)>>
                        ELSE Append(calls, FoundCall(btype, b))
            /\ shell_log' = IF b.found THEN shell_log \o r.cmds ELSE shell_log
            /\ IF (b.found /\ r.ok) \/ (~b.found /\ next_pc # "executed")
               THEN /\ pc' = next_pc
                    /\ IF next_pc = "executed" THEN result' = PyBool(TRUE) ELSE UNCHANGED result
               ELSE pc' = "executed" /\ result' = PyBool(FALSE)

\* one `find the button, return False if there is none, tap it, return False
\* if the tap failed` of lines 54-70, 111-122, 126-137 and 149-159; the last
\* one of a chain (next_pc = "executed") returns True
LocateAndTap(btype, next_pc) ==
    \E reply \in RepliesOf(LookupAnswers), shell_ok \in BOOLEAN :
        \E b \in {_find_button_ai(btype, reply)} : \E r \in {tap(b.x, b.y, shell_ok)} :
            /\ calls' = IF b.found THEN calls \o <<FoundCall(btype, b), TapCall(b, r)>>
                        ELSE Append(calls, FoundCall(btype, b))
            /\ shell_log' = IF b.found THEN shell_log \o r.cmds ELSE shell_log
            /\ IF b.found /\ r.ok
               THEN /\ pc' = next_pc
                    /\ IF next_pc = "executed" THEN result' = PyBool(TRUE) ELSE UNCHANGED result
               ELSE pc' = "executed" /\ result' = PyBool(FALSE)

LikeProfile_PassButton ==
    /\ pc = "like"
    /\ LocateAndTap(s_pass, "executed")
    /\ UNCHANGED <<comment, requests>>
    /\ UNCHANGED exec_idle_vars

\* lines 51-74
LikeProfile ==
    /\ pc = "like"
    /\ LocateAndTap(s_like, "executed")
    /\ UNCHANGED <<comment, requests>>
    /\ UNCHANGED exec_idle_vars

\* lines 76-99
PassProfile ==
    /\ pc = "pass"
    /\ LocateAndTap(s_pass, "executed")
    /\ UNCHANGED <<comment, requests>>
    /\ UNCHANGED exec_idle_vars

CommentText_OnlyWhenNone ==
    /\ pc = "comment"
    /\ IF comment = PyNone
       THEN \E ocr_ok \in BOOLEAN, reply \in GenerateReplies :
               \E text \in {extract_text(ocr_ok)} : \E made \in {generate_comment(text, reply)} :
                   /\ comment' = PyStr(made)
                   /\ calls' = calls \o
                        <<Call("extract_text", <<>>, <<>>, screenshot_path, PyStr(text), TRUE, 0),
                          Call("generate_comment", <<>>, <<>>, PyStr(text), PyStr(made),
                               openai_client /\ reply.outcome = "text", 0)>>
                   /\ requests' = IF openai_client THEN Append(requests, "gpt-4") ELSE requests
       ELSE UNCHANGED <<comment, calls, requests>>
    /\ pc' = "comment_button"
    /\ UNCHANGED <<shell_log, result>>
    /\ UNCHANGED exec_idle_vars

\* lines 104-109: `if not comment`; the call of generate_comment is recorded
\* with whether its request was made and gave a text
CommentText ==
    /\ pc = "comment"
    /\ IF ~Truthy(comment)
       THEN \E ocr_ok \in BOOLEAN, reply \in GenerateReplies :
               \E text \in {extract_text(ocr_ok)} : \E made \in {generate_comment(text, reply)} :
                   /\ comment' = PyStr(made)
                   /\ calls' = calls \o
                        <<Call("extract_text", <<>>, <<>>, screenshot_path, PyStr(text), TRUE, 0),
                          Call("generate_comment", <<>>, <<>>, PyStr(text), PyStr(made),
                               openai_client /\ reply.outcome = "text", 0)>>
                   /\ requests' = IF openai_client THEN Append(requests, "gpt-4") ELSE requests
       ELSE UNCHANGED <<comment, calls, requests>>
    /\ pc' = "comment_button"
    /\ UNCHANGED <<shell_log, result>>
    /\ UNCHANGED exec_idle_vars

\* lines 111-124
CommentButton ==
    /\ pc = "comment_button"
    /\ LocateAndTap(s_comment, "text_input")
    /\ UNCHANGED <<comment, requests>>
    /\ UNCHANGED exec_idle_vars

\* the text input looked for on a screenshot taken after the tap
TextInput_Recaptures ==
    /\ pc = "text_input"
    /\ \E img \in {[file |-> "image", width |-> 1080, height |-> 1920],
                    [file |-> "image", width |-> 720, height |-> 1280]} :
          /\ image' = img
          /\ calls' = calls \o <<Call("capture_screenshot", <<>>, <<>>, PyNone, PyNone, TRUE, 0),
                                 Call("find", s_text_input, <<img.width \div 2, img.height \div 2>>,
                                      screenshot_path, PyNone, TRUE, 0)>>
    /\ pc' = "input_text"
    /\ UNCHANGED <<openai_client, criteria, profile_text, screenshot_path, age_match, ai_reply,
                   response_text, decision, device, screen_width, screen_height, ui_client,
                   vision_reply, button_type, located, ocr_text, max_wait, new_criteria,
                   got_criteria, wait_i, bot_delay, profile_info>>
    /\ UNCHANGED <<comment, requests, shell_log, result>>

\* lines 126-139
TextInput ==
    /\ pc = "text_input"
    /\ LocateAndTap(s_text_input, "input_text")
    /\ UNCHANGED <<comment, requests>>
    /\ UNCHANGED exec_idle_vars

InputText_IgnoreRejection ==
    /\ pc = "input_text"
    /\ \E shell_ok \in BOOLEAN :
          \E r \in {input_text(comment, shell_ok)} :
              /\ calls' = Append(calls, Call("input_text", <<>>, <<>>, comment, PyNone, r.ok, At(r)))
              /\ shell_log' = shell_log \o r.cmds
              /\ pc' = "send_button" /\ UNCHANGED result
    /\ UNCHANGED <<comment, requests>>
    /\ UNCHANGED exec_idle_vars

\* lines 141-147
InputText ==
    /\ pc = "input_text"
    /\ \E shell_ok \in BOOLEAN :
          \E r \in {input_text(comment, shell_ok)} :
              /\ calls' = Append(calls, Call("input_text", <<>>, <<>>, comment, PyNone, r.ok, At(r)))
              /\ shell_log' = shell_log \o r.cmds
              /\ IF r.ok THEN pc' = "send_button" /\ UNCHANGED result
                 ELSE pc' = "executed" /\ result' = PyBool(FALSE)
    /\ UNCHANGED <<comment, requests>>
    /\ UNCHANGED exec_idle_vars

\* lines 149-163
SendButton ==
    /\ pc = "send_button"
    /\ LocateAndTap(s_send, "executed")
    /\ UNCHANGED <<comment, requests>>
    /\ UNCHANGED exec_idle_vars

NextExecute ==
    \/ ExecuteDecision
    \/ LikeProfile
    \/ PassProfile
    \/ CommentText
    \/ CommentButton
    \/ TextInput
    \/ InputText
    \/ SendButton

SpecExecute == InitExecute /\ [][NextExecute]_vars

(***************************************************************************)
(* HingeAutoBot.run (src/app/main.py): setup, then one iteration after     *)
(* another of capture, classify, extract, analyze, execute, sleep.  The    *)
(* locals of an iteration are dead once it sleeps, and the logs are those  *)
(* of the call in progress.  time.sleep returns normally.                  *)
(***************************************************************************)
s_hiking == <<"h","i","k","i","n","g">>
s_technology == <<"t","e","c","h","n","o","l","o","g","y">>

\* the matching_criteria of the configuration
LoopCriteria(bl) ==
    [min_age |-> 21, max_age |-> 35, preferred_interests |-> <<s_hiking, s_technology>>,
     deal_breakers |-> bl]
\* the configurations: whether openai_api_key is set, and the criteria
LoopConfigs ==
    {<<FALSE, LoopCriteria(<<>>)>>, <<TRUE, LoopCriteria(<<>>)>>,
     <<FALSE, LoopCriteria(<<<<"A","l","e","x">>, <<"4","o">>>>)>>}

\* what image_to_string reads on the screenshot
LoopTexts == {s_alex, <<" ","h","|","k","i","n","g",","," "," ","4","0","\n">>}

\* bot_delay: the default, and BOT_DELAY=-1 in the environment
LoopDelays == {DefaultBotDelay, 0 - 1}

\* what screencap wrote to the file
LoopImages ==
    {[file |-> "empty", width |-> 0, height |-> 0],
     [file |-> "image", width |-> 1080, height |-> 1920]}

\* what an iteration leaves alone from its start to its end
loop_config_vars == <<openai_client, criteria, device, screen_width, screen_height, ui_client,
                      vision_reply, button_type, located, max_wait, new_criteria, got_criteria, wait_i, bot_delay, profile_info>>
\* the locals of an iteration and the logs
iteration_vars == <<profile_text, screenshot_path, requests, age_match, ai_reply,
                    response_text, decision, shell_log, image, calls, comment, result,
                    ocr_text>>

\* the locals and the logs before an iteration
IterationIdle ==
    /\ profile_text = <<>>
    /\ screenshot_path = PyNone
    /\ requests = <<>>
    /\ age_match = <<>>
    /\ ai_reply = NoReply
    /\ response_text = <<>>
    /\ decision = NoDecision
    /\ shell_log = <<>>
    /\ image = NoImage
    /\ calls = <<>> /\ comment = PyNone /\ result = PyNone /\ ocr_text = <<>>

\* the same of the state an iteration is left in
ResetIteration ==
    /\ profile_text' = <<>>
    /\ screenshot_path' = PyNone
    /\ requests' = <<>>
    /\ age_match' = <<>>
    /\ ai_reply' = NoReply
    /\ response_text' = <<>>
    /\ decision' = NoDecision
    /\ shell_log' = <<>>
    /\ image' = NoImage
    /\ calls' = <<>> /\ comment' = PyNone /\ result' = PyNone /\ ocr_text' = <<>>

\* lines 39-48; Config.__init__ has read bot_delay (config.py 27, 103-104)
InitLoop ==
    /\ openai_client = FALSE
    /\ criteria = [min_age |-> 21, max_age |-> 35, preferred_interests |-> <<>>,
                   deal_breakers |-> <<>>]
    /\ InteractionIdle
    /\ bot_delay \in LoopDelays
    /\ profile_info = <<>>
    /\ IterationIdle
    /\ pc = "run"

CaptureCall(b) == Call("capture_screenshot", <<>>, <<>>, PyNone, PyNone, b, 0)
ClassifyCall(b) == Asking(Call("is_profile_screen", <<>>, <<>>, PyStr(s_png), PyNone, b, 0))
ConnectCall(b) == Call("connect", <<>>, <<>>, PyNone, PyNone, b, 0)
DisconnectCall == Call("disconnect", <<>>, <<>>, PyNone, PyNone, TRUE, 0)
RaisedCall(raised) == Call(raised, <<>>, <<>>, PyNone, PyNone, FALSE, 0)

\* lines 50-92, setup and its call in run: connect fails (56-58); or it
\* succeeds and then both clients are made from the one openai_api_key and
\* the criteria from matching_criteria (61-80); or it succeeds and setup is
\* left before its end, by the except of lines 82-84 or by a
\* KeyboardInterrupt, and run returns at line 90 or is left, above its try
Setup ==
    /\ pc = "run"
    /\ \/ /\ pc' = "exited"
          /\ calls' = <<ConnectCall(FALSE)>>
          /\ UNCHANGED <<device, screen_width, screen_height, openai_client, ui_client, criteria>>
       \/ /\ device' = TRUE
          /\ screen_width' = DefaultDimensions[1]
          /\ screen_height' = DefaultDimensions[2]
          /\ \/ \E cfg \in LoopConfigs :
                   /\ openai_client' = cfg[1]
                   /\ ui_client' = cfg[1]
                   /\ criteria' = cfg[2]
                   /\ calls' = <<>>
                   /\ pc' = "capture"
             \/ /\ pc' = "exited"
                /\ calls' = <<ConnectCall(TRUE)>>
                /\ UNCHANGED <<openai_client, ui_client, criteria>>
    /\ UNCHANGED <<vision_reply, button_type, located, max_wait, new_criteria, got_criteria, wait_i, bot_delay, profile_info>>
    /\ UNCHANGED <<profile_text, screenshot_path, requests, age_match, ai_reply,
                   response_text, decision, shell_log, image, comment, result, ocr_text>>

\* lines 97-98: no path, or the path of the file written
CaptureScreenshot_Unchecked ==
    /\ pc = "capture"
    /\ \/ /\ calls' = Append(calls, CaptureCall(FALSE))
          /\ pc' = "classify"
          /\ UNCHANGED <<screenshot_path, image, ocr_text>>
       \/ \E img \in LoopImages, text \in LoopTexts :
             /\ screenshot_path' = PyStr(s_png)
             /\ image' = img
             /\ ocr_text' = text
             /\ calls' = Append(calls, CaptureCall(TRUE))
             /\ pc' = "classify"
    /\ UNCHANGED <<profile_text, requests, age_match, ai_reply, response_text, decision,
                   shell_log, comment, result>>
    /\ UNCHANGED loop_config_vars

CaptureScreenshot ==
    /\ pc = "capture"
    /\ \/ /\ calls' = Append(calls, CaptureCall(FALSE))
          /\ pc' = "retry"
          /\ UNCHANGED <<screenshot_path, image, ocr_text>>
       \/ \E img \in LoopImages, text \in LoopTexts :
             /\ screenshot_path' = PyStr(s_png)
             /\ image' = img
             /\ ocr_text' = text
             /\ calls' = Append(calls, CaptureCall(TRUE))
             /\ pc' = "classify"
    /\ UNCHANGED <<profile_text, requests, age_match, ai_reply, response_text, decision,
                   shell_log, comment, result>>
    /\ UNCHANGED loop_config_vars

\* lines 99-101: time.sleep(5) and continue
Retry ==
    /\ pc = "retry"
    /\ ResetIteration
    /\ pc' = "capture"
    /\ UNCHANGED loop_config_vars

\* line 104
Classify_Ungated ==
    /\ pc = "classify"
    /\ \E reply \in RepliesOf(ProfileAnswers) :
          \E profile \in {is_profile_screen(reply)} :
             /\ result' = PyBool(profile)
             /\ calls' = Append(calls, ClassifyCall(profile))
             /\ pc' = "extract_text"
    /\ UNCHANGED <<profile_text, screenshot_path, requests, age_match, ai_reply,
                   response_text, decision, shell_log, image, comment, ocr_text>>
    /\ UNCHANGED loop_config_vars

Classify ==
    /\ pc = "classify"
    /\ \E reply \in RepliesOf(ProfileAnswers) :
          \E profile \in {is_profile_screen(reply)} :
             /\ result' = PyBool(profile)
             /\ calls' = Append(calls, ClassifyCall(profile))
             /\ pc' = IF profile THEN "extract_text" ELSE "sleep"
    /\ UNCHANGED <<profile_text, screenshot_path, requests, age_match, ai_reply,
                   response_text, decision, shell_log, image, comment, ocr_text>>
    /\ UNCHANGED loop_config_vars

\* line 108
ExtractProfileText ==
    /\ pc = "extract_text"
    /\ \E ocr_ok \in BOOLEAN :
          \E text \in {extract_text(ocr_ok)} :
             /\ profile_text' = text
             /\ calls' = Append(calls, Call("extract_text", <<>>, <<>>, screenshot_path,
                                            PyStr(text), TRUE, 0))
    /\ pc' = "analyze_profile"
    /\ UNCHANGED <<screenshot_path, requests, age_match, ai_reply, response_text, decision,
                   shell_log, image, comment, result, ocr_text>>
    /\ UNCHANGED loop_config_vars

\* lines 111-114: the Decision analyze_profile returned goes to
\* execute_decision; what analyze_profile kept of its requests ends with its
\* call
HandDecision ==
    /\ pc = "done"
    /\ pc' = "execute_decision"
    /\ requests' = <<>>
    /\ age_match' = <<>>
    /\ ai_reply' = NoReply
    /\ response_text' = <<>>
    /\ calls' = calls \o
          <<Call("analyze_profile", <<>>, <<>>, PyStr(profile_text), decision.action, TRUE, 0),
            Call("execute_decision", <<>>, <<>>, decision.action, PyNone, TRUE, 0)>>
    /\ UNCHANGED <<profile_text, screenshot_path, decision, shell_log, image, comment,
                   result, ocr_text>>
    /\ UNCHANGED loop_config_vars

\* line 120, and the next iteration; time.sleep takes no negative length
Sleep_NoWait ==
    /\ pc \in {"sleep", "execute_decision", "executed"}
    /\ bot_delay >= 0
    /\ ResetIteration
    /\ pc' = "capture"
    /\ UNCHANGED loop_config_vars

Sleep ==
    /\ pc \in {"sleep", "executed"}
    /\ bot_delay >= 0
    /\ ResetIteration
    /\ pc' = "capture"
    /\ UNCHANGED loop_config_vars

\* lines 122-133 and device_manager.py 181-187: the except that was entered
\* logs, cleanup disconnects, and the locals of run end with it
Cleanup(raised) ==
    /\ device' = FALSE
    /\ profile_text' = <<>>
    /\ screenshot_path' = PyNone
    /\ requests' = <<>>
    /\ age_match' = <<>>
    /\ ai_reply' = NoReply
    /\ response_text' = <<>>
    /\ decision' = NoDecision
    /\ shell_log' = <<>>
    /\ image' = NoImage
    /\ calls' = <<RaisedCall(raised), DisconnectCall>> /\ comment' = PyNone /\ result' = PyNone /\ ocr_text' = <<>>
    /\ pc' = "exited"
    /\ UNCHANGED <<openai_client, criteria, screen_width, screen_height, ui_client,
                   vision_reply, button_type, located, max_wait, new_criteria, got_criteria, wait_i, bot_delay, profile_info>>

\* lines 120, 124-127: time.sleep raises ValueError on a negative bot_delay,
\* the except of the loop logs it, and cleanup
LoopError ==
    /\ pc \in {"sleep", "executed"}
    /\ bot_delay < 0
    /\ Cleanup("Exception")

\* lines 122-127: KeyboardInterrupt anywhere in the loop, and cleanup
Interrupt ==
    /\ pc \notin {"run", "exited"}
    /\ Cleanup("KeyboardInterrupt")

\* the steps run takes by itself
LoopStep ==
    \/ Setup
    \/ CaptureScreenshot
    \/ Retry
    \/ Classify
    \/ ExtractProfileText
    \/ AnalyzeProfile
    \/ AnalyzeProfileWithVision
    \/ AnalyzeProfileTextOnly
    \/ FallbackAnalysis
    \/ HandDecision
    \/ ExecuteDecision
    \/ LikeProfile
    \/ PassProfile
    \/ CommentText
    \/ CommentButton
    \/ TextInput
    \/ InputText
    \/ SendButton
    \/ Sleep
    \/ LoopError

NextLoop ==
    \/ LoopStep
    \/ Interrupt

SpecLoop == InitLoop /\ [][NextLoop]_vars

\* every call of the loop returns and every sleep ends; whether the user
\* interrupts is left open
SpecLoopLive == SpecLoop /\ WF_vars(LoopStep)

(***************************************************************************)
(* InteractionController.wait_for_app_ready (src/app/interaction_          *)
(* controller.py): one poll per value of range(max_wait).  The calls of a  *)
(* poll are recorded in calls.  time.sleep returns normally.               *)
(***************************************************************************)
\* largest max_wait drawn
MaxWait == 3

WaitImages == LoopImages \cup {[file |-> "image", width |-> 1920, height |-> 1080]}

\* what the function never touches
wait_idle_vars ==
    <<openai_client, criteria, profile_text, requests, age_match, ai_reply, response_text,
      decision, device, screen_width, screen_height, shell_log, ui_client, vision_reply,
      button_type, located, comment, ocr_text, max_wait, new_criteria, got_criteria, bot_delay, profile_info>>

InitWait ==
    /\ openai_client = FALSE
    /\ criteria = [min_age |-> 21, max_age |-> 35, preferred_interests |-> <<>>,
                   deal_breakers |-> <<>>]
    /\ profile_text = <<>>
    /\ screenshot_path = PyNone
    /\ requests = <<>>
    /\ age_match = <<>>
    /\ ai_reply = NoReply
    /\ response_text = <<>>
    /\ decision = NoDecision
    /\ device \in BOOLEAN
    /\ screen_width = DefaultDimensions[1] /\ screen_height = DefaultDimensions[2]
    /\ shell_log = <<>>
    /\ ui_client \in BOOLEAN
    /\ image = NoImage
    /\ vision_reply = NoVision
    /\ button_type = <<>>
    /\ located = NotFound
    /\ calls = <<>> /\ comment = PyNone /\ result = PyNone /\ ocr_text = <<>>
    /\ new_criteria = <<>> /\ got_criteria = <<>> /\ max_wait \in (0 - 1)..MaxWait
    /\ wait_i = 0 /\ bot_delay = DefaultBotDelay /\ profile_info = <<>>
    /\ pc = "wait_for_app_ready"


\* lines 249-254, the head of one pass of the loop: no screenshot
\* (device_manager.py 76-103: no device, or screencap or the write raises)
\* and the next pass, or a screenshot to classify
WaitPoll_OneMore ==
    /\ pc = "wait_for_app_ready"
    /\ wait_i <= max_wait
    /\ wait_i' = wait_i + 1
    /\ \/ /\ calls' = Append(calls, CaptureCall(FALSE))
          /\ UNCHANGED <<screenshot_path, image, pc>>
       \/ /\ device
          /\ \E img \in WaitImages :
                /\ screenshot_path' = PyStr(s_png)
                /\ image' = img
          /\ calls' = Append(calls, CaptureCall(TRUE))
          /\ pc' = "wait_classify"
    /\ UNCHANGED result
    /\ UNCHANGED wait_idle_vars

WaitPoll ==
    /\ pc = "wait_for_app_ready"
    /\ wait_i < max_wait
    /\ wait_i' = wait_i + 1
    /\ \/ /\ calls' = Append(calls, CaptureCall(FALSE))
          /\ UNCHANGED <<screenshot_path, image, pc>>
       \/ /\ device
          /\ \E img \in WaitImages :
                /\ screenshot_path' = PyStr(s_png)
                /\ image' = img
          /\ calls' = Append(calls, CaptureCall(TRUE))
          /\ pc' = "wait_classify"
    /\ UNCHANGED result
    /\ UNCHANGED wait_idle_vars

\* lines 256-261: a profile screen ends the wait, anything else goes to the
\* next pass
WaitClassify ==
    /\ pc = "wait_classify"
    /\ \E reply \in RepliesOf(ProfileAnswers) :
          \E ready \in {is_profile_screen(reply)} :
             /\ calls' = Append(calls, ClassifyCall(ready))
             /\ IF ready THEN result' = PyBool(TRUE) /\ pc' = "waited"
                ELSE result' = result /\ pc' = "wait_for_app_ready"
    /\ UNCHANGED <<screenshot_path, image, wait_i>>
    /\ UNCHANGED wait_idle_vars

\* lines 263-264: range(max_wait) is used up
WaitTimeout ==
    /\ pc = "wait_for_app_ready"
    /\ wait_i >= max_wait
    /\ result' = PyBool(FALSE)
    /\ pc' = "waited"
    /\ UNCHANGED <<screenshot_path, image, calls, wait_i>>
    /\ UNCHANGED wait_idle_vars

NextWait ==
    \/ WaitPoll
    \/ WaitClassify
    \/ WaitTimeout

SpecWait == InitWait /\ [][NextWait]_vars

\* the function runs on: it is not suspended for ever
SpecWaitLive == SpecWait /\ WF_vars(NextWait)

(***************************************************************************)
(* TextExtractor.extract_text with a region and extract_profile_info       *)
(* (src/app/text_extractor.py).  A call of extract_text is recorded with   *)
(* the stages of it that raised (kind), its region (args), what            *)
(* image_to_string read (text), what it returned (out) and the field it    *)
(* was made for (at).                                                      *)
(***************************************************************************)
\* the keys of regions, in the order of the dict, lines 62-67
FieldOrder == <<"name", "age", "bio", "prompts">>
InfoFields == {FieldOrder[k] : k \in DOMAIN FieldOrder}

\* lines 62-67: (x, y, w, h) of each field
Regions(width, height) ==
    [f \in InfoFields |->
        IF f = "name" THEN <<0, 0, width, height \div 4>>
        ELSE IF f = "age" THEN <<0, height \div 4, width \div 3, height \div 8>>
        ELSE <<0, height \div 2, width, height \div 2>>]

\* one run of extract_text: the stages that raised and what image_to_string
\* read when it was reached and returned
Outcome(stages, read) == [failed |-> stages, text |-> read]
Raised(o, stage) == \E k \in DOMAIN o.failed : o.failed[k] = stage

\* without a region there is no crop (lines 30-32)
DirectOutcomes ==
    {Outcome(<<>>, <<"A","l","e","x">>),
     Outcome(<<>>, <<" ","\n">>),
     Outcome(<<"_preprocess_image">>, <<"A","l","e","x">>),
     Outcome(<<"image_to_string">>, <<>>),
     Outcome(<<"_preprocess_image", "image_to_string">>, <<>>)}
\* the file is opened again for each field
FieldOutcomes ==
    DirectOutcomes \cup {Outcome(<<"Image.open">>, <<>>), Outcome(<<"crop">>, <<>>)}

\* lines 20-48: the except of extract_text returns ""; _preprocess_image has
\* its own except, which returns the image it was given (lines 82-110)
extract_text_PreprocessEmpties(o) ==
    IF Raised(o, "Image.open") \/ Raised(o, "crop") \/ Raised(o, "image_to_string")
       \/ Raised(o, "_preprocess_image")
    THEN <<>>
    ELSE _clean_text(o.text)

extract_text_region(o) ==
    IF Raised(o, "Image.open") \/ Raised(o, "crop") \/ Raised(o, "image_to_string")
    THEN <<>>
    ELSE _clean_text(o.text)

ExtractCall(field, region, o, returned) ==
    Call("extract_text", o.failed, region, PyStr(o.text), PyStr(returned), o.failed = <<>>,
         field)

ExtractImages ==
    {NoImage,
     [file |-> "other", width |-> 0, height |-> 0],
     [file |-> "image", width |-> 1080, height |-> 1920],
     [file |-> "image", width |-> 90, height |-> 7]}

extract_idle_vars ==
    <<openai_client, criteria, profile_text, screenshot_path, requests, age_match, ai_reply,
      response_text, decision, device, screen_width, screen_height, shell_log, ui_client,
      image, vision_reply, button_type, located, comment, ocr_text, max_wait, new_criteria, got_criteria, wait_i,
      bot_delay>>

InitExtract ==
    /\ openai_client = FALSE
    /\ criteria = [min_age |-> 21, max_age |-> 35, preferred_interests |-> <<>>,
                   deal_breakers |-> <<>>]
    /\ profile_text = <<>>
    /\ screenshot_path = PyStr(s_png)
    /\ requests = <<>>
    /\ age_match = <<>>
    /\ ai_reply = NoReply
    /\ response_text = <<>>
    /\ decision = NoDecision
    /\ device = FALSE /\ screen_width = 0 /\ screen_height = 0 /\ shell_log = <<>>
    /\ ui_client = FALSE
    /\ image \in ExtractImages
    /\ vision_reply = NoVision
    /\ button_type = <<>> /\ located = NotFound
    /\ calls = <<>> /\ comment = PyNone /\ result = PyNone /\ ocr_text = <<>>
    /\ new_criteria = <<>> /\ got_criteria = <<>> /\ max_wait = 0 /\ wait_i = 0
    /\ bot_delay = DefaultBotDelay /\ profile_info = <<>>
    /\ pc \in {"extract_text", "extract_profile_info"}

\* lines 20-48, called without a region
ExtractText ==
    /\ pc = "extract_text"
    /\ \E o \in (IF Opens THEN DirectOutcomes ELSE {Outcome(<<"Image.open">>, <<>>)}) :
          \E returned \in {extract_text_region(o)} :
             /\ result' = PyStr(returned)
             /\ calls' = <<ExtractCall(0, <<>>, o, returned)>>
    /\ pc' = "extracted"
    /\ UNCHANGED profile_info
    /\ UNCHANGED extract_idle_vars

\* lines 50-80: Image.open raises and the except returns {}; or each field
\* whose text is not blank gets its entry, in the order of regions
ExtractProfileInfo ==
    /\ pc = "extract_profile_info"
    /\ IF ~Opens
       THEN profile_info' = <<>> /\ calls' = <<>>
       ELSE \E outs \in [InfoFields -> FieldOutcomes] :
               \E texts \in {[f \in InfoFields |-> extract_text_region(outs[f])]} :
                  /\ profile_info' = [f \in {g \in InfoFields : Strip(texts[g]) # <<>>} |->
                                         Strip(texts[f])]
                  /\ calls' = [k \in DOMAIN FieldOrder |->
                                 ExtractCall(k, Regions(image.width, image.height)[FieldOrder[k]],
                                             outs[FieldOrder[k]], texts[FieldOrder[k]])]
    /\ pc' = "extracted"
    /\ UNCHANGED result
    /\ UNCHANGED extract_idle_vars

NextExtract ==
    \/ ExtractText
    \/ ExtractProfileInfo

SpecExtract == InitExtract /\ [][NextExtract]_vars

(***************************************************************************)
(* TextExtractor._clean_text on any text (src/app/text_extractor.py): the  *)
(* text image_to_string gave is cleaned, and the cleaned text is cleaned   *)
(* again.                                                                  *)
(***************************************************************************)
\* longest text drawn by InitClean
MaxOcr == 4

OcrChars == {"a", "0", "|", " ", "\n"}

clean_idle_vars ==
    <<openai_client, criteria, screenshot_path, requests, age_match, ai_reply,
      response_text, decision, device, screen_width, screen_height, shell_log, ui_client,
      image, vision_reply, button_type, located, calls, comment, result, max_wait, new_criteria, got_criteria, wait_i,
      bot_delay, profile_info>>

InitClean ==
    /\ openai_client = FALSE
    /\ criteria = [min_age |-> 21, max_age |-> 35, preferred_interests |-> <<>>,
                   deal_breakers |-> <<>>]
    /\ profile_text = <<>>
    /\ screenshot_path = PyNone
    /\ requests = <<>>
    /\ age_match = <<>>
    /\ ai_reply = NoReply
    /\ response_text = <<>>
    /\ decision = NoDecision
    /\ device = FALSE /\ screen_width = 0 /\ screen_height = 0 /\ shell_log = <<>>
    /\ ui_client = FALSE /\ image = NoImage /\ vision_reply = NoVision
    /\ button_type = <<>> /\ located = NotFound
    /\ calls = <<>> /\ comment = PyNone /\ result = PyNone
    /\ ocr_text \in BoundedSeq(OcrChars, MaxOcr)
    /\ new_criteria = <<>> /\ got_criteria = <<>> /\ max_wait = 0 /\ wait_i = 0
    /\ bot_delay = DefaultBotDelay /\ profile_info = <<>>
    /\ pc = "_clean_text"

\* lines 112-129 on what image_to_string gave
CleanText ==
    /\ pc = "_clean_text"
    /\ profile_text' = _clean_text(ocr_text)
    /\ pc' = "cleaned"
    /\ UNCHANGED ocr_text
    /\ UNCHANGED clean_idle_vars

\* lines 112-129 on the text it returned
CleanAgain ==
    /\ pc = "cleaned"
    /\ ocr_text' = profile_text
    /\ profile_text' = _clean_text(profile_text)
    /\ pc' = "cleaned_again"
    /\ UNCHANGED clean_idle_vars

NextClean ==
    \/ CleanText
    \/ CleanAgain

SpecClean == InitClean /\ [][NextClean]_vars

(***************************************************************************)
(* InteractionController.swipe_to_next_profile and                         *)
(* swipe_to_previous_profile (src/app/interaction_controller.py) on the    *)
(* device manager above.  The call of DeviceManager.swipe is recorded with *)
(* the method that made it (kind), and so is the time.sleep(swipe_delay)   *)
(* that follows it; swipe_delay is not negative, so that sleep returns.    *)
(***************************************************************************)
SleepCall == Call("sleep", <<>>, <<>>, PyNone, PyNone, TRUE, 0)

\* lines 172-193 and 198-219: the end points from get_screen_dimensions, one
\* swipe, and the delay when it succeeded
SwipeProfile_AlwaysWaits(method, from, to) ==
    /\ pc = "device"
    /\ Cardinality({i \in DOMAIN calls : calls[i].op = "swipe"}) < MaxCmds
    /\ \E shell_ok \in BOOLEAN :
          \E p \in {<<Ratio(screen_width, from), Ratio(screen_height, 50),
                      Ratio(screen_width, to), Ratio(screen_height, 50)>>} :
             \E r \in {swipe(p[1], p[2], p[3], p[4], DefaultDuration, shell_ok)} :
                /\ shell_log' = shell_log \o r.cmds
                /\ calls' = calls \o <<Call("swipe", method, p, PyNone, PyNone, r.ok, At(r)),
                                       SleepCall>>
                /\ result' = PyBool(r.ok)
    /\ UNCHANGED <<device, screen_width, screen_height, pc>>
    /\ UNCHANGED idle_vars

SwipeProfile(method, from, to) ==
    /\ pc = "device"
    /\ Cardinality({i \in DOMAIN calls : calls[i].op = "swipe"}) < MaxCmds
    /\ \E shell_ok \in BOOLEAN :
          \E p \in {<<Ratio(screen_width, from), Ratio(screen_height, 50),
                      Ratio(screen_width, to), Ratio(screen_height, 50)>>} :
             \E r \in {swipe(p[1], p[2], p[3], p[4], DefaultDuration, shell_ok)} :
                /\ shell_log' = shell_log \o r.cmds
                /\ calls' = IF r.ok
                            THEN calls \o <<Call("swipe", method, p, PyNone, PyNone, r.ok, At(r)),
                                            SleepCall>>
                            ELSE Append(calls, Call("swipe", method, p, PyNone, PyNone, r.ok,
                                                    At(r)))
                /\ result' = PyBool(r.ok)
    /\ UNCHANGED <<device, screen_width, screen_height, pc>>
    /\ UNCHANGED idle_vars

s_next == <<"n","e","x","t">>
s_previous == <<"p","r","e","v","i","o","u","s">>

\* lines 169-193
SwipeToNextProfile == SwipeProfile(s_next, 80, 20)
\* lines 195-219
SwipeToPreviousProfile == SwipeProfile(s_previous, 20, 80)

NextSwipe ==
    \/ Connect
    \/ SwipeToNextProfile
    \/ SwipeToPreviousProfile
    \/ Disconnect

SpecSwipe == InitDevice /\ [][NextSwipe]_vars

(***************************************************************************)
(* ProfileAnalyzer.update_criteria and get_criteria (src/app/              *)
(* profile_analyzer.py), with evaluations by the fallback analysis in      *)
(* between.  A dict is a function from its keys; {} is <<>>.               *)
(***************************************************************************)
\* most calls of the analyzer in a run
MaxOps == 3

\* d.update(c) and no more, as the variant that forgets d
DictUpdate_Replace(d, c) == c

\* dict.update: the keys of c get the values of c, the other keys of d stay
DictUpdate(d, c) ==
    [k \in DOMAIN d \cup DOMAIN c |-> IF k \in DOMAIN c THEN c[k] ELSE d[k]]

\* matching_criteria of the configuration: all four keys, or the ages only
StartCriteria ==
    {[min_age |-> 21, max_age |-> 35, preferred_interests |-> <<<<"a">>, <<"B">>>>,
      deal_breakers |-> <<<<"7">>>>],
     [min_age |-> 28, max_age |-> 72]}
\* the arguments of update_criteria
NewCriteria ==
    {<<>>,
     [min_age |-> 22, max_age |-> 27],
     [deal_breakers |-> <<>>],
     [min_age |-> 28, max_age |-> 72, preferred_interests |-> <<<<"a">>, <<"2">>>>,
      deal_breakers |-> <<<<"B">>>>]}
CriteriaTexts == {<<"a", " ", "B", " ", "2", "7">>, <<"a", " ", "2", " ", "7", "2">>}

criteria_idle_vars ==
    <<openai_client, profile_text, screenshot_path, requests, ai_reply, response_text,
      device, screen_width, screen_height, shell_log, ui_client, image, vision_reply,
      button_type, located, comment, result, ocr_text, max_wait, wait_i, bot_delay,
      profile_info>>

InitCriteria ==
    /\ InteractionIdle
    /\ bot_delay = DefaultBotDelay /\ profile_info = <<>>
    /\ openai_client = FALSE
    /\ screenshot_path = PyNone
    /\ requests = <<>>
    /\ criteria \in StartCriteria
    /\ profile_text \in CriteriaTexts
    /\ age_match = <<>>
    /\ ai_reply = NoReply
    /\ response_text = <<>>
    /\ decision = NoDecision
    /\ pc = "analyzer"

AnalyzerCall(op) == Call(op, <<>>, <<>>, PyNone, PyNone, TRUE, 0)

\* lines 379-382
UpdateCriteria ==
    /\ pc = "analyzer"
    /\ Len(calls) < MaxOps
    /\ \E c \in NewCriteria :
          /\ new_criteria' = c
          /\ criteria' = DictUpdate(criteria, c)
    /\ calls' = Append(calls, AnalyzerCall("update_criteria"))
    /\ UNCHANGED <<got_criteria, decision, age_match, pc>>
    /\ UNCHANGED criteria_idle_vars

\* lines 384-386
GetCriteria ==
    /\ pc = "analyzer"
    /\ Len(calls) < MaxOps
    /\ got_criteria' = criteria
    /\ calls' = Append(calls, AnalyzerCall("get_criteria"))
    /\ UNCHANGED <<criteria, new_criteria, decision, age_match, pc>>
    /\ UNCHANGED criteria_idle_vars

\* lines 260-311, on self.criteria as it is now
Evaluate ==
    /\ pc = "analyzer"
    /\ Len(calls) < MaxOps
    /\ decision' = _fallback_analysis(criteria, profile_text)
    /\ age_match' = IF BreakerHits(criteria, profile_text) # {}
                    THEN <<>>
                    ELSE <<_check_age_match(criteria, profile_text)>>
    /\ calls' = Append(calls, AnalyzerCall("_fallback_analysis"))
    /\ UNCHANGED <<criteria, new_criteria, got_criteria, pc>>
    /\ UNCHANGED criteria_idle_vars

NextCriteria ==
    \/ UpdateCriteria
    \/ GetCriteria
    \/ Evaluate

SpecCriteria == InitCriteria /\ [][NextCriteria]_vars

(***************************************************************************)
(* The lines 108-111 of run (src/app/main.py) with no openai_api_key:      *)
(* extract_text cleans what image_to_string read, and analyze_profile      *)
(* gives the cleaned text to the fallback analysis.                        *)
(***************************************************************************)
PipelineChars == {"a", "3", "0", "5", " "}
PipelineCriteria ==
    {[min_age |-> r[1], max_age |-> r[2], preferred_interests |-> <<<<"a">>, <<"A">>>>,
      deal_breakers |-> bl] : r \in AgeRanges, bl \in {<<>>, <<<<"5">>>>}}

InitPipeline ==
    /\ device = TRUE /\ screen_width = DefaultDimensions[1] /\ screen_height = DefaultDimensions[2]
    /\ shell_log = <<>>
    /\ ui_client = FALSE /\ vision_reply = NoVision
    /\ button_type = <<>> /\ located = NotFound
    /\ calls = <<>> /\ comment = PyNone /\ result = PyNone
    /\ new_criteria = <<>> /\ got_criteria = <<>> /\ max_wait = 0 /\ wait_i = 0
    /\ bot_delay = DefaultBotDelay
    /\ profile_info = <<>>
    /\ openai_client = FALSE
    /\ criteria \in PipelineCriteria
    /\ profile_text = <<>>
    /\ requests = <<>>
    /\ age_match = <<>>
    /\ ai_reply = NoReply
    /\ response_text = <<>>
    /\ decision = NoDecision
    /\ ocr_text \in BoundedSeq(PipelineChars, MaxOcr)
    /\ image = [file |-> "image", width |-> 1080, height |-> 1920]
    /\ screenshot_path = PyStr(s_png)
    /\ pc = "extract_text"

NextPipeline ==
    \/ ExtractProfileText
    \/ AnalyzeProfile
    \/ FallbackAnalysis

SpecPipeline == InitPipeline /\ [][NextPipeline]_vars

(***************************************************************************)
(* Vocabulary of the properties of the fallback analysis, stated on the    *)
(* inputs alone.                                                           *)
(***************************************************************************)
\* term occurs in text as a substring, ignoring case
OccursIn(term, text) ==
    \E i \in 1..(Len(text) + 1 - Len(term)) :
        Lower(SubSeq(text, i, i + Len(term) - 1)) = Lower(term)

HasDealBreaker ==
    \E k \in 1..Len(criteria.deal_breakers) : OccursIn(criteria.deal_breakers[k], profile_text)

InterestCount ==
    Cardinality({k \in 1..Len(criteria.preferred_interests) :
                    OccursIn(criteria.preferred_interests[k], profile_text)})

\* the maximal runs of word characters of the text, as <<first, last>> positions
Words(text) ==
    {w \in (1..Len(text)) \X (1..Len(text)) :
        /\ w[1] <= w[2]
        /\ \A k \in w[1]..w[2] : IsWordChar(text[k])
        /\ (w[1] = 1 \/ ~IsWordChar(text[w[1] - 1]))
        /\ (w[2] = Len(text) \/ ~IsWordChar(text[w[2] + 1]))}

\* the values of the stand-alone two-digit tokens of the text
TwoDigitTokens(text) ==
    {10 * DigitVal(text[w[1]]) + DigitVal(text[w[2]]) :
        w \in {v \in Words(text) : v[2] = v[1] + 1 /\ IsDigit(text[v[1]]) /\ IsDigit(text[v[2]])}}

InRange(age) == criteria.min_age <= age /\ age <= criteria.max_age

AgeCompatible ==
    TwoDigitTokens(profile_text) = {} \/ \E age \in TwoDigitTokens(profile_text) : InRange(age)

Returned == pc = "done"

\* C1: a text that holds a configured deal-breaker term (substring, ignoring case)
\* gets 'pass' with confidence 0.9 from the fallback analysis, whatever the
\* number of interest matches and whatever ages the text shows.
C1_DealBreakerPasses ==
    (Returned /\ HasDealBreaker) =>
        /\ decision.action = PyStr(s_pass)
        /\ decision.confidence = 90

\* the deal breaker wins over two matched interests and an age in range
C1_Witness ==
    /\ Returned /\ HasDealBreaker
    /\ InterestCount >= 2
    /\ \E age \in TwoDigitTokens(profile_text) : InRange(age)
    /\ decision.action = PyStr(s_pass) /\ decision.confidence = 90

\* C2 as stated: at least 2 interest matches and an extracted two-digit age
\* inside [minAge, maxAge] give 'like' with confidence 0.7.
C2_Original ==
    (/\ Returned
     /\ InterestCount >= 2
     /\ \E age \in TwoDigitTokens(profile_text) : InRange(age)) =>
        /\ decision.action = PyStr(s_like)
        /\ decision.confidence = 70

\* C2 (amended): a text without any deal-breaker term, with at least 2 interest
\* matches and an extracted two-digit age inside [minAge, maxAge], gets 'like'
\* with confidence 0.7.
C2_LikeWithoutDealBreaker ==
    (/\ Returned
     /\ ~HasDealBreaker
     /\ InterestCount >= 2
     /\ \E age \in TwoDigitTokens(profile_text) : InRange(age)) =>
        /\ decision.action = PyStr(s_like)
        /\ decision.confidence = 70

\* the extracted age sits on a bound of the range
C2_Witness ==
    /\ Returned /\ ~HasDealBreaker /\ InterestCount >= 2
    /\ \E age \in TwoDigitTokens(profile_text) : age = criteria.max_age
    /\ decision.action = PyStr(s_like)

\* C3: no interest match and no deal-breaker term give 'pass' with confidence
\* 0.5, whatever age the text shows.
C3_NoInterestPasses ==
    (Returned /\ ~HasDealBreaker /\ InterestCount = 0) =>
        /\ decision.action = PyStr(s_pass)
        /\ decision.confidence = 50

\* no match although interests are configured and an age in range is shown
C3_Witness ==
    /\ Returned /\ ~HasDealBreaker /\ InterestCount = 0
    /\ Len(criteria.preferred_interests) > 0
    /\ \E age \in TwoDigitTokens(profile_text) : InRange(age)
    /\ decision.action = PyStr(s_pass) /\ decision.confidence = 50

\* the three rows of the table, as the properties state them
LikeRow == InterestCount >= 2 /\ AgeCompatible
CommentRow == ~LikeRow /\ InterestCount >= 1
PassRow == ~LikeRow /\ ~CommentRow

\* C4: without a deal breaker the action follows the table: count >= 2 and
\* age-compatible is 'like'; otherwise count >= 1 is 'comment' with confidence
\* 0.6 and a non-empty comment; otherwise 'pass'; one row applies to each input.
C4_DecisionTable ==
    (Returned /\ ~HasDealBreaker) =>
        /\ LikeRow => decision.action = PyStr(s_like)
        /\ CommentRow => /\ decision.action = PyStr(s_comment)
                         /\ decision.confidence = 60
                         /\ decision.comment.t = "str" /\ Len(decision.comment.s) > 0
        /\ PassRow => decision.action = PyStr(s_pass)
        /\ decision.action \in {PyStr(s_like), PyStr(s_comment), PyStr(s_pass)}

\* two matches whose age is out of range fall to the comment row
C4_Witness ==
    /\ Returned /\ ~HasDealBreaker
    /\ InterestCount >= 2 /\ ~AgeCompatible
    /\ decision.action = PyStr(s_comment) /\ decision.confidence = 60

\* C5: the age check is true when the text has no stand-alone two-digit token,
\* and otherwise true exactly when a token value lies in [minAge, maxAge],
\* both bounds included.
C5_AgeCheck ==
    (Returned /\ age_match # <<>>) => age_match[1] = AgeCompatible

\* a token on the lower bound of the range is the only one in range
C5_Witness ==
    /\ Returned /\ age_match = <<TRUE>>
    /\ \E age \in TwoDigitTokens(profile_text) : age = criteria.min_age
    /\ \A age \in TwoDigitTokens(profile_text) : age <= criteria.min_age

(***************************************************************************)
(* Vocabulary of the properties of the response parser, stated on the      *)
(* answer as the collaborator composed it and on the characters of the     *)
(* text.                                                                   *)
(***************************************************************************)
HasWord(w, ws) == \E i \in 1..Len(ws) : ws[i] = w
OpenInPre == HasWord(<<"{", " ">>, ai_reply.pre)
CloseInPost == HasWord(<<"}", " ">>, ai_reply.post)

\* the text from the first '{' to the last '}' is the object of the answer
Embedded == ai_reply.shape = "object" /\ ~OpenInPre /\ ~CloseInPost

\* the number a confidence value stands for, <<>> when it stands for none
ConfidenceMeaning ==
    IF "confidence" \notin DOMAIN ai_reply.fields THEN <<50>>
    ELSE IF ai_reply.fields.confidence.t = "num" THEN <<ai_reply.fields.confidence.n>>
    ELSE IF ai_reply.fields.confidence = PyStr(<<"0", ".", "9">>) THEN <<90>>
    ELSE <<>>
Coercible == ConfidenceMeaning # <<>>

FieldOr(key, default) ==
    IF key \in DOMAIN ai_reply.fields THEN ai_reply.fields[key] ELSE default

HasChar(c) == \E i \in 1..Len(response_text) : response_text[i] = c
NoBraces == ~HasChar("{") /\ ~HasChar("}")
OneBraceKind == HasChar("{") # HasChar("}")
\* a defective object stands between the first '{' and the last '}'
DefectiveObject == ai_reply.shape \in DefectShapes /\ ~OpenInPre /\ ~CloseInPost
\* a brace of the prose widens the delimited text beyond the object
BrokenByProse == ai_reply.shape = "object" /\ (OpenInPre \/ CloseInPost)
Uncoercible == Embedded /\ ~Coercible
Unparsed == NoBraces \/ OneBraceKind \/ DefectiveObject \/ BrokenByProse \/ Uncoercible

SaysLike == OccursIn(s_like, response_text)
SaysComment == OccursIn(s_comment, response_text)

\* C6 as stated: whenever the text from the first '{' to the last '}' is a
\* well-formed JSON object, the Decision returned is built from its fields.
C6_Original ==
    (Returned /\ Embedded) =>
        /\ decision.action = FieldOr("action", PyStr(s_pass))
        /\ Coercible => decision.confidence = ConfidenceMeaning[1]
        /\ decision.reason = FieldOr("reason", PyStr(s_no_reason))
        /\ decision.comment = FieldOr("comment", PyNone)

\* C6 (amended): when the text from the first '{' to the last '}' is a
\* well-formed JSON object whose confidence, if present, converts to a float,
\* the Decision returned is built from the fields of the object, whatever
\* prose stands before and after it.
C6_EmbeddedObjectParsed ==
    (Returned /\ Embedded /\ Coercible) =>
        decision = ProfileDecision(FieldOr("action", PyStr(s_pass)),
                                   ConfidenceMeaning[1],
                                   FieldOr("reason", PyStr(s_no_reason)),
                                   FieldOr("comment", PyNone))

\* prose around {action: like, confidence: 0.9, reason: x}
C6_Witness ==
    /\ Returned /\ Embedded
    /\ ai_reply.pre # <<>> /\ ai_reply.post # <<>>
    /\ ai_reply.fields = [action |-> PyStr(s_like), confidence |-> PyNum(90), reason |-> PyStr(<<"x">>)]
    /\ decision = ProfileDecision(PyStr(s_like), 90, PyStr(<<"x">>), PyNone)

MissingKeysDefaulted ==
    /\ "action" \notin DOMAIN ai_reply.fields => decision.action = PyStr(s_pass)
    /\ "confidence" \notin DOMAIN ai_reply.fields => decision.confidence = 50
    /\ "reason" \notin DOMAIN ai_reply.fields => decision.reason = PyStr(s_no_reason)
    /\ "comment" \notin DOMAIN ai_reply.fields => decision.comment = PyNone

\* C7 as stated: when the embedded object parses, every key it lacks takes
\* its default in the Decision.
C7_Original == (Returned /\ Embedded) => MissingKeysDefaulted

\* C7 (amended): when the embedded object parses and its confidence, if
\* present, converts to a float, every key it lacks takes its default in the
\* Decision (action 'pass', confidence 0.5, reason 'No reason provided',
\* comment absent), each independently of the other keys.
C7_DefaultsPerMissingKey == (Returned /\ Embedded /\ Coercible) => MissingKeysDefaulted

\* only the reason is given: the three other keys take their defaults
C7_Witness ==
    /\ Returned /\ Embedded
    /\ DOMAIN ai_reply.fields = {"reason"}
    /\ decision = ProfileDecision(PyStr(s_pass), 50, ai_reply.fields.reason, PyNone)

\* C8: a malformed or brace-free response whose lowercased text holds
\* 'comment' and not 'like' gives action comment, confidence 0.6 and a
\* non-empty comment.
C8_KeywordComment ==
    (Returned /\ Unparsed /\ SaysComment /\ ~SaysLike) =>
        /\ decision.action = PyStr(s_comment)
        /\ decision.confidence = 60
        /\ decision.comment.t = "str" /\ Len(decision.comment.s) > 0

\* a defective object between braces, found through the keyword
C8_Witness ==
    /\ Returned /\ DefectiveObject /\ HasChar("{") /\ HasChar("}")
    /\ SaysComment /\ ~SaysLike
    /\ decision.action = PyStr(s_comment) /\ decision.confidence = 60

\* C9: with no brace, one kind of brace only, or a delimited text that fails
\* to parse or to convert, the keywords of the whole lowercased text decide:
\* 'like' anywhere gives like, else 'comment' gives comment, else pass, and
\* the confidence is 0.6.
C9_KeywordFallback ==
    (Returned /\ Unparsed) =>
        /\ decision.action = (IF SaysLike THEN PyStr(s_like)
                              ELSE IF SaysComment THEN PyStr(s_comment)
                              ELSE PyStr(s_pass))
        /\ decision.confidence = 60

\* a confidence that does not convert: 'like' inside a word of the prose wins
\* over the 'comment' of the object
C9_Witness ==
    /\ Returned /\ Uncoercible
    /\ "action" \in DOMAIN ai_reply.fields /\ ai_reply.fields.action = PyStr(s_comment)
    /\ SaysLike /\ SaysComment
    /\ decision.action = PyStr(s_like) /\ decision.confidence = 60

\* C10: every Decision returned by analyze_profile has its action among
\* like, pass and comment and its confidence within [0.0, 1.0].
C10_DecisionInDomain ==
    Returned =>
        /\ decision.action \in {PyStr(s_like), PyStr(s_pass), PyStr(s_comment)}
        /\ 0 <= decision.confidence /\ decision.confidence <= 100

\* C11: every Decision returned by analyze_profile whose action is 'comment'
\* carries a comment that is present (a str, not None) and not empty.
C11_CommentCarriesText ==
    Returned /\ decision.action = PyStr(s_comment) =>
        decision.comment.t = "str" /\ decision.comment.s # <<>>

(***************************************************************************)
(* Vocabulary of the properties of the device manager.  Among the          *)
(* arguments of tap and swipe an x stands at each odd position and a y at  *)
(* each even one.                                                          *)
(***************************************************************************)
ScreenBound(k) == IF k % 2 = 1 THEN screen_width ELSE screen_height
OnScreen(v, k) == 0 <= v /\ v <= ScreenBound(k) - 1

\* C12: on a connected device whose width and height are at least 1, every
\* coordinate that tap and swipe forward to the device lies within
\* [0, width-1] x [0, height-1], whatever integers were passed, and a
\* coordinate that was passed within these bounds is forwarded as it is.
C12_ForwardedOnScreen ==
    screen_width >= 1 /\ screen_height >= 1 =>
        \A i \in DOMAIN calls :
            calls[i].op \in {"tap", "swipe"} /\ calls[i].at # 0 =>
                LET sent == shell_log[calls[i].at]
                IN  /\ sent.cmd = calls[i].op
                    /\ \A k \in 1..Len(calls[i].args) :
                          /\ OnScreen(sent.args[k], k)
                          /\ OnScreen(calls[i].args[k], k) => sent.args[k] = calls[i].args[k]

\* a tap left of the screen and a swipe that starts below it were forwarded,
\* and so was a tap within the screen
C12_Witness ==
    /\ device /\ screen_width > 1
    /\ \E i \in DOMAIN calls, j \in DOMAIN calls :
          /\ calls[i].op = "tap" /\ calls[i].at # 0 /\ calls[i].args[1] < 0
          /\ calls[j].op = "swipe" /\ calls[j].at # 0 /\ calls[j].args[2] >= screen_height
          /\ shell_log[calls[j].at].args[2] = screen_height - 1

(***************************************************************************)
(* Vocabulary of the properties of the UI detector, stated on the answer   *)
(* as the vision collaborator composed it.                                 *)
(***************************************************************************)
\* the answer is a text
Answered == Asks /\ vision_reply.outcome = "text"
\* the word of a one-word answer, whitespace around it and case set aside
AnswerWord == Upper(Strip(VisionText(vision_reply)))
\* portrait orientation and a height above the threshold
PortraitHeuristic ==
    image.file = "image" /\ image.height > image.width /\ image.height > MinProfileHeight

\* C19: is_profile_screen takes the vision collaborator's answer only when it
\* is the YES or the NO token; for any other answer, a failed request or a
\* missing collaborator its result is what the fallback heuristic gives
\* (portrait orientation and a height above the threshold), not a fixed value.
C19_OtherAnswersUseHeuristic ==
    pc = "classified" =>
        IF Answered /\ AnswerWord \in {s_YES, s_NO}
        THEN result = PyBool(AnswerWord = s_YES)
        ELSE result = PyBool(PortraitHeuristic)

\* the answer of fields, none other than two numerals of integers
TwoIntegers ==
    /\ Len(vision_reply.parts) = 2
    /\ vision_reply.parts[1].int /\ vision_reply.parts[2].int
Sentinel == vision_reply.parts = <<OtherField(s_NOT_FOUND)>>
Malformed == Answered /\ ~Sentinel /\ ~TwoIntegers

\* C20: for every element kind, an answer of the vision collaborator that is
\* a text but neither the NOT_FOUND sentinel nor two integers separated by a
\* comma (another number of fields, a field that is no integer, no text at
\* all) makes _find_button_ai return None: no fallback coordinates take its
\* place and nothing is raised.
C20_MalformedIsNotFound ==
    pc = "located" /\ Malformed => located = NotFound

\* three integers were answered for a screenshot on which the fallback would
\* have given coordinates, and so was a field that is no integer
C20_Witness ==
    /\ pc = "located" /\ Malformed /\ Opens
    /\ _fallback_button_detection(button_type).found
    /\ Len(vision_reply.parts) = 3
    /\ \A k \in 1..3 : vision_reply.parts[k].int
    /\ located = NotFound

(***************************************************************************)
(* Vocabulary of the properties of the interaction controller, stated on   *)
(* the recorded calls.                                                     *)
(***************************************************************************)
IsComment == decision.action = PyStr(s_comment)
Executed == pc = "executed"
IsLookup(c) == c.op = "find"
IsCommand(c) == c.op \in {"tap", "input_text"}
IsChainCall(c) == IsLookup(c) \/ IsCommand(c)
\* the lookups and device commands, and the device commands alone, in order
ChainCalls == SelectSeq(calls, IsChainCall)
DeviceCommands == SelectSeq(calls, IsCommand)
CallsOf(op) == {i \in DOMAIN calls : calls[i].op = op}
LookupsOf(btype) == {i \in CallsOf("find") : calls[i].kind = btype}

TextInputNotLocated == \E i \in LookupsOf(s_text_input) : ~calls[i].ok

\* C13: in the comment chain, once the lookup of the text input has found
\* nothing, no text is submitted, the send button is neither looked up nor
\* tapped (the failed lookup stays the last call), and the chain has
\* returned False.
C13_NoSendWithoutTextInput ==
    IsComment /\ TextInputNotLocated =>
        /\ CallsOf("input_text") = {}
        /\ LookupsOf(s_send) = {}
        /\ calls[Len(calls)].op = "find" /\ calls[Len(calls)].kind = s_text_input
        /\ Executed /\ result = PyBool(FALSE)

\* the comment button was tapped and accepted, then the text input was not found
C13_Witness ==
    /\ IsComment /\ TextInputNotLocated
    /\ Len(shell_log) = 1
    /\ \E i \in CallsOf("tap") : calls[i].ok

\* the k-th call of the chain is what _comment_on_profile does k-th
ChainStep(c, k) ==
    IF k = 1 THEN c[k].op = "find" /\ c[k].kind = s_comment
    ELSE IF k = 3 THEN c[k].op = "find" /\ c[k].kind = s_text_input
    ELSE IF k = 5 THEN c[k].op = "input_text" /\ c[k].text = comment
    ELSE IF k = 6 THEN c[k].op = "find" /\ c[k].kind = s_send
    ELSE c[k].op = "tap" /\ c[k].args = c[k - 1].args

\* C14: whatever the collaborators do, the device commands of one comment
\* Decision are a prefix of tap(comment button), tap(text input),
\* input_text(comment), tap(send button), each tap at the coordinate just
\* located; nothing follows a lookup that found nothing or a command that
\* was rejected; and the chain returns True exactly when all four commands
\* were issued and accepted.
C14_CommentChainPrefix ==
    IsComment =>
        /\ Len(ChainCalls) <= 7
        /\ \A k \in 1..Len(ChainCalls) : ChainStep(ChainCalls, k)
        /\ \A k \in 1..(Len(ChainCalls) - 1) : ChainCalls[k].ok
        /\ IF Executed
           THEN result = PyBool(/\ Len(DeviceCommands) = 4
                                /\ \A k \in 1..4 : DeviceCommands[k].ok)
           ELSE result = PyNone

\* a chain that went through, and the four commands on the device
C14_Witness ==
    /\ IsComment /\ Executed /\ result = PyBool(TRUE)
    /\ Len(DeviceCommands) = 4 /\ Len(shell_log) = 4
    /\ shell_log[3].cmd = "text"

IsLikeOrPass == decision.action \in {PyStr(s_like), PyStr(s_pass)}

NoCommentText == decision.comment \in {PyNone, PyStr(<<>>)}
CommentSettled == pc \notin {"execute_decision", "comment"}

\* C16: for a comment Decision without comment text (None or ''),
\* generate_comment is called once, on what extract_text returned for the
\* screenshot, and any text submitted to the device is what it returned; for
\* a Decision with a comment, generate_comment is not called and any text
\* submitted is the Decision's comment.
C16_CommentTextSource ==
    IsComment /\ CommentSettled =>
        IF NoCommentText
        THEN /\ Cardinality(CallsOf("generate_comment")) = 1
             /\ \A g \in CallsOf("generate_comment") :
                   /\ g > 1 /\ calls[g - 1].op = "extract_text"
                   /\ calls[g - 1].text = screenshot_path
                   /\ calls[g].text = calls[g - 1].out
                   /\ \A i \in CallsOf("input_text") : calls[i].text = calls[g].out
        ELSE /\ CallsOf("generate_comment") = {}
             /\ CallsOf("extract_text") = {}
             /\ \A i \in CallsOf("input_text") : calls[i].text = decision.comment

\* an empty comment was replaced by the collaborator's line, made from the
\* extracted text, and submitted
C16_Witness ==
    /\ IsComment /\ decision.comment = PyStr(<<>>)
    /\ \E g \in CallsOf("generate_comment"), i \in CallsOf("input_text") :
          /\ calls[g].text = PyStr(s_alex)
          /\ calls[g].out = PyStr(<<"N","i","c","e"," ","2","7","!">>)
          /\ calls[i].text = calls[g].out /\ calls[i].ok

(***************************************************************************)
(* Vocabulary of the properties of analyze_profile as a whole, stated on   *)
(* the requests made and the Decision returned.                            *)
(***************************************************************************)
VisionRequest == "gpt-4-vision-preview"
TextRequest == "gpt-4"
HasDecision == decision # NoDecision
\* the row of the deterministic fallback that applies to the text
FallbackRow ==
    IF HasDealBreaker THEN <<PyStr(s_pass), 90>>
    ELSE IF LikeRow THEN <<PyStr(s_like), 70>>
    ELSE IF CommentRow THEN <<PyStr(s_comment), 60>>
    ELSE <<PyStr(s_pass), 50>>
IsFallbackDecision ==
    profile_text # NoneText => <<decision.action, decision.confidence>> = FallbackRow

\* what holds at each stage of one call
C18_Stages ==
    /\ pc \in {"analyze_profile", "vision", "text_only", "fallback", "done"}
    /\ ~Returned => ENABLED Next /\ ~HasDecision
    /\ Returned => HasDecision
    /\ ~openai_client =>
          /\ requests = <<>>
          /\ pc \in {"analyze_profile", "fallback", "done"}
          /\ Returned => IsFallbackDecision
    /\ pc = "vision" => Truthy(screenshot_path) /\ requests = <<>>
    /\ pc = "text_only" =>
          IF Truthy(screenshot_path) THEN requests \in {<<>>, <<VisionRequest>>}
          ELSE requests = <<>>
    /\ openai_client /\ pc = "fallback" =>
          IF Truthy(screenshot_path)
          THEN requests \in {<<TextRequest>>, <<VisionRequest, TextRequest>>}
          ELSE requests = <<TextRequest>>
    /\ openai_client /\ Returned =>
          IF Truthy(screenshot_path)
          THEN requests \in {<<VisionRequest>>, <<TextRequest>>, <<VisionRequest, TextRequest>>}
          ELSE requests = <<TextRequest>>

\* how one stage hands over to the next
C18_Degrades ==
    /\ pc = "vision" /\ ~HasDecision' => pc' = "text_only"
    /\ pc = "text_only" /\ ~HasDecision' => pc' = "fallback" /\ Len(requests') = Len(requests) + 1
    /\ pc = "fallback" => Returned' /\ IsFallbackDecision'

\* C18: analyze_profile always returns a Decision, whatever the AI
\* collaborator does (absent, raising on either request, answering None, an
\* empty or a malformed text): no stage is left without a next one before a
\* Decision is returned.  Without a collaborator no request is made and the
\* Decision is the deterministic fallback's; a vision request that gives no
\* Decision is followed by the text-only request, and a text-only request
\* that gives none by the deterministic fallback, which is reached in no
\* other way when a collaborator is configured.
C18_TotalAndDegradesInOrder == []C18_Stages /\ [][C18_Degrades]_vars

\* both requests were made and gave nothing, and the fallback decided
C18_Witness ==
    /\ Returned /\ openai_client
    /\ requests = <<VisionRequest, TextRequest>>
    /\ response_text = <<>> /\ profile_text # NoneText
    /\ <<decision.action, decision.confidence>> = FallbackRow
    /\ decision.reason # PyStr(<<"A","I"," ","a","n","a","l","y","s","i","s"," ",
                                 "c","o","m","p","l","e","t","e","d">>)

(***************************************************************************)
(* Vocabulary of the properties of the control loop.                       *)
(***************************************************************************)
\* analyze_profile has returned in this iteration, or its Decision is with
\* the executor
Decided == pc \in {"done", "execute_decision"}
ExampleCriteria ==
    /\ criteria.min_age = 21 /\ criteria.max_age = 35
    /\ criteria.preferred_interests = <<s_hiking, s_technology>>
    /\ criteria.deal_breakers = <<>>

\* C17: in an iteration of the loop whose screenshot was classified as a
\* profile screen, with no AI collaborator configured, the Decision that
\* analyze_profile returns and that is handed to execute_decision is the
\* deterministic fallback's for the extracted text, made without any request;
\* for 'Alex, 27, loves hiking and technology' under min_age 21, max_age 35,
\* preferred interests hiking and technology, it is 'like' with confidence 0.7.
C17_LoopUsesFallback ==
    Decided /\ ~openai_client =>
        /\ result = PyBool(TRUE)
        /\ requests = <<>>
        /\ <<decision.action, decision.confidence>> = FallbackRow
        /\ profile_text = s_alex /\ ExampleCriteria =>
              decision.action = PyStr(s_like) /\ decision.confidence = 70

\* the example, with the Decision at the executor
C17_Witness ==
    /\ pc = "execute_decision" /\ ~openai_client /\ ~ui_client
    /\ image = [file |-> "image", width |-> 1080, height |-> 1920]
    /\ ocr_text = s_alex /\ profile_text = s_alex
    /\ ExampleCriteria
    /\ decision.action = PyStr(s_like) /\ decision.confidence = 70

\* the request was not made for want of a collaborator, or it raised
Unanswered == ~ui_client \/ vision_reply.outcome = "raises"
\* the percentages of the width and of the height at which a kind is assumed
FallbackPercent(btype) ==
    IF btype = s_like THEN <<80, 90>>
    ELSE IF btype = s_pass THEN <<20, 90>>
    ELSE IF btype = s_comment THEN <<50, 90>>
    ELSE IF btype = s_send THEN <<80, 90>>
    ELSE <<50, 85>>
\* v is the given percentage of size, truncated to an integer
TruncatedPercent(v, size, percent) == 100 * v <= size * percent /\ size * percent < 100 * (v + 1)

\* C21: without a vision collaborator, or when its request raises,
\* _find_button_ai gives for each of the five kinds the fixed percentages of
\* the image's width and height, truncated to integers (like 80/90, pass
\* 20/90, comment 50/90, send 80/90, text input 50/85), and gives nothing
\* only when the image cannot be read.
C21_FallbackPositions ==
    pc = "located" /\ Unanswered =>
        IF image.file = "image"
        THEN /\ located.found
             /\ TruncatedPercent(located.x, image.width, FallbackPercent(button_type)[1])
             /\ TruncatedPercent(located.y, image.height, FallbackPercent(button_type)[2])
        ELSE located = NotFound

\* the request raised, and the percentage of the width was truncated
C21_Witness ==
    /\ pc = "located" /\ ui_client /\ vision_reply.outcome = "raises"
    /\ button_type = s_like /\ image.width = 601
    /\ located = Point(480, 900)

(***************************************************************************)
(* wait_for_app_ready                                                      *)
(***************************************************************************)
Captures == CallsOf("capture_screenshot")
ProfileScreens == {i \in CallsOf("is_profile_screen") : calls[i].ok}
Waited == pc = "waited"

\* every classification follows the capture of its screenshot
ClassifiesCaptured ==
    \A i \in CallsOf("is_profile_screen") :
       i > 1 /\ calls[i - 1].op = "capture_screenshot" /\ calls[i - 1].ok

C22_Polls ==
    /\ Cardinality(Captures) <= max(max_wait, 0)
    /\ max_wait <= 0 => Captures = {}
    /\ ClassifiesCaptured
    /\ ProfileScreens \subseteq {Len(calls)}
    /\ ProfileScreens # {} => Waited /\ result = PyBool(TRUE)
    /\ Waited /\ result = PyBool(TRUE) => ProfileScreens = {Len(calls)}
    /\ Waited /\ result = PyBool(FALSE) =>
          ProfileScreens = {} /\ Cardinality(Captures) = max(max_wait, 0)
    /\ Waited => result \in {PyBool(TRUE), PyBool(FALSE)}

\* C22: wait_for_app_ready(max_wait) returns, after at most max_wait
\* captures (none when max_wait <= 0): True at the first poll whose
\* screenshot is captured and classified as a profile screen, with no
\* capture after it, and False when max_wait polls, failed captures
\* included, went by without one.
C22_WaitTerminates == []C22_Polls /\ <>Waited

\* True at the second of three polls, after one whose capture failed
C22_Witness ==
    /\ Waited /\ result = PyBool(TRUE)
    /\ max_wait = 3
    /\ Cardinality(Captures) = 2
    /\ ~calls[1].ok

(***************************************************************************)
(* The control loop, HingeAutoBot.run                                      *)
(***************************************************************************)
FailedCaptures == {i \in Captures : ~calls[i].ok}
Interrupted == pc = "exited" /\ calls[1].op = "KeyboardInterrupt"
\* an iteration that has done nothing yet
FreshIteration ==
    /\ calls = <<>> /\ shell_log = <<>> /\ requests = <<>>
    /\ decision = NoDecision /\ profile_text = <<>> /\ result = PyNone

\* after a failed capture the iteration holds that one call and nothing else
C23_NothingAfterFailure ==
    FailedCaptures # {} =>
        /\ pc = "retry"
        /\ calls = <<CaptureCall(FALSE)>>
        /\ shell_log = <<>> /\ requests = <<>>
        /\ decision = NoDecision /\ profile_text = <<>> /\ result = PyNone

\* the step after it starts the next iteration, unless the user interrupts
C23_NextCapture ==
    pc = "retry" => (pc' = "capture" /\ FreshIteration' /\ device') \/ Interrupted'

\* C23: an iteration of the loop whose capture_screenshot fails makes no
\* classification, text extraction, decision or device command, and the loop
\* then starts another iteration at its capture instead of ending, unless it
\* is interrupted.
C23_CaptureFailureRetries ==
    /\ []C23_NothingAfterFailure
    /\ [][C23_NextCapture]_vars
    /\ (pc = "retry" ~> (pc = "capture" \/ Interrupted))

\* a failed capture on a connected device, before the loop goes on
C23_Witness == pc = "retry" /\ FailedCaptures = {1} /\ device /\ bot_delay = DefaultBotDelay

Running == pc \notin {"run", "exited"}
\* the end of a cycle: executed, idle on another screen, or no screenshot
CycleEnded == pc \in {"executed", "sleep", "retry"}

C24_LeftByInterruption == Running /\ pc' = "exited" => Interrupted'

\* C24: no failure inside a cycle ends the control loop: after every cycle,
\* whatever failed in it, the loop starts the next capture, and it leaves
\* its running state only when the user interrupts it.
C24_OnlyInterruptionEndsLoop ==
    /\ [][C24_LeftByInterruption]_vars
    /\ (CycleEnded ~> (pc = "capture" \/ Interrupted))

\* C25: whenever run() is over after a connect that succeeded, whether the
\* loop was interrupted or ended by an error or setup failed or was
\* interrupted after the connect, the device connection has been released.
C25_ReleasedOnEveryExit == pc = "exited" => ~device

\* the calls of one iteration of run, in the order of lines 97-114
LoopOps ==
    <<"capture_screenshot", "is_profile_screen", "extract_text", "analyze_profile",
      "execute_decision">>
\* the calls execute_decision makes
ExecutorOps == {"find", "tap", "swipe", "input_text", "extract_text", "generate_comment"}
Handed == CallsOf("execute_decision")
Analyzing == pc \in {"analyze_profile", "vision", "text_only", "fallback", "done"}
Executing == pc \in {"execute_decision", "like", "pass", "comment", "comment_button",
                     "text_input", "input_text", "send_button", "executed"}

C26_Order ==
    Running =>
        /\ \A i \in DOMAIN calls :
              IF i <= Len(LoopOps) THEN calls[i].op = LoopOps[i]
              ELSE calls[i].op \in ExecutorOps
        /\ Len(calls) >= 3 => calls[1].ok /\ calls[2].ok
        /\ Analyzing => Len(calls) = 3
        /\ Executing => Len(calls) >= 5
        /\ decision # NoDecision => Len(calls) >= 3
        /\ shell_log # <<>> => Handed = {5}
        /\ Len(calls) = 2 /\ ~calls[2].ok =>
              pc = "sleep" /\ shell_log = <<>> /\ decision = NoDecision /\ profile_text = <<>>

\* a cycle on another screen goes from the delay to the next capture or to
\* the end of run, with no device command
C26_IdleWait ==
    pc = "sleep" => pc' \in {"capture", "exited"} /\ shell_log' = <<>> /\ decision' = NoDecision

\* C26: the calls of a cycle of the loop come in the order capture, classify,
\* extract, analyze, execute; the last three are made only when the
\* screenshot of that cycle was classified as a profile screen, and when it
\* was not the cycle makes no device command and goes to the polling delay.
C26_StepsInOrder == []C26_Order /\ [][C26_IdleWait]_vars

\* a whole cycle, with a device command issued by the executor
C26_Witness == pc = "executed" /\ Handed = {5} /\ shell_log # <<>> /\ Len(calls) > 5

Analyses == CallsOf("analyze_profile")

C27_OneDecision ==
    Running =>
        /\ Cardinality(Captures) <= 1
        /\ Cardinality(Analyses) <= 1 /\ Cardinality(Handed) <= 1
        /\ Executing =>
              /\ Analyses = {4} /\ Handed = {5}
              /\ calls[4].out = decision.action /\ calls[5].text = decision.action
              /\ decision # NoDecision

\* the Decision stays as it was produced, the next capture waits for the end
\* of the cycle, and device commands are issued by the executor, one step at
\* a time
C27_OneAtATime ==
    /\ Executing /\ Executing' => decision' = decision
    /\ Running /\ pc' = "capture" => pc \in {"retry", "sleep", "executed"}
    /\ shell_log' # shell_log /\ shell_log' # <<>> =>
          Executing /\ Executing' /\ Len(shell_log') = Len(shell_log) + 1
                    /\ SubSeq(shell_log', 1, Len(shell_log)) = shell_log

\* C27: a cycle on a profile screen makes one call of analyze_profile and
\* hands its Decision to execute_decision once; the capture of the next cycle
\* begins only after execute_decision has returned, and device commands are
\* issued one after the other inside that call.
C27_OneDecisionPerCycle == []C27_OneDecision /\ [][C27_OneAtATime]_vars

\* a cycle whose 'like' Decision was executed
C27_Witness ==
    /\ pc = "executed" /\ result = PyBool(TRUE)
    /\ Analyses = {4} /\ calls[5].text = PyStr(s_like)
    /\ Len(shell_log) = 1

(***************************************************************************)
(* generate_comment                                                        *)
(***************************************************************************)
Generated == CallsOf("generate_comment")

\* C28: generate_comment returns the fixed greeting, a string, when there is
\* no AI client and when its request raises or gives no content; without a
\* client it makes no request.
C28_GreetingOnFailure ==
    /\ \A g \in Generated :
          /\ calls[g].out.t = "str"
          /\ ~calls[g].ok => calls[g].out = PyStr(s_caught_attention)
          /\ ~openai_client => ~calls[g].ok
    /\ IF openai_client THEN requests = [g \in 1..Cardinality(Generated) |-> "gpt-4"]
       ELSE requests = <<>>

\* a request that was made and failed, and the greeting typed into the field
C28_Witness ==
    /\ openai_client /\ requests = <<"gpt-4">>
    /\ \E g \in Generated : ~calls[g].ok /\ calls[g].out = PyStr(s_caught_attention)
    /\ \E i \in CallsOf("input_text") : calls[i].ok /\ calls[i].text = PyStr(s_caught_attention)

(***************************************************************************)
(* extract_text and extract_profile_info                                   *)
(***************************************************************************)
Extracted == pc = "extracted"
StageRaised(c, stage) == \E k \in DOMAIN c.kind : c.kind[k] = stage
\* a stage whose exception reaches the except of extract_text
Aborted(c) ==
    StageRaised(c, "Image.open") \/ StageRaised(c, "crop") \/ StageRaised(c, "image_to_string")
\* the entry of the returned mapping is the stripped text of the call made
\* for the field, and there is none when that text is blank
EntryOf(c) ==
    LET f == FieldOrder[c.at]
    IN  IF Strip(c.out.s) = <<>> THEN f \notin DOMAIN profile_info
        ELSE f \in DOMAIN profile_info /\ profile_info[f] = Strip(c.out.s)
\* what was returned is a string, or a mapping from fields to strings
ReturnedValue ==
    IF result # PyNone
    THEN result.t = "str" /\ Len(calls) = 1 /\ result = calls[1].out
    ELSE /\ DOMAIN profile_info \subseteq InfoFields
         /\ IF Opens THEN Len(calls) = Len(FieldOrder) ELSE calls = <<>> /\ profile_info = <<>>

\* C29 as stated: any failure while loading, cropping, preprocessing or
\* recognising makes extract_text return '' and extract_profile_info return
\* a mapping without that field (an empty one if the image cannot be
\* opened), and neither raises.
C29_AnyFailureGivesEmpty ==
    Extracted =>
        /\ ReturnedValue
        /\ \A i \in DOMAIN calls :
              calls[i].kind # <<>> =>
                 /\ calls[i].out = PyStr(<<>>)
                 /\ calls[i].at > 0 => FieldOrder[calls[i].at] \notin DOMAIN profile_info

\* C29, amended: a failure while loading, cropping or recognising makes
\* extract_text return '' and extract_profile_info leave the field out (an
\* empty mapping if the image cannot be opened); a failure while
\* preprocessing is absorbed and the unprocessed image is recognised, so the
\* text read from it is returned as without the failure; neither raises.
C29_FailuresGiveEmpty ==
    Extracted =>
        /\ ReturnedValue
        /\ \A i \in DOMAIN calls :
              /\ Aborted(calls[i]) => calls[i].out = PyStr(<<>>)
              /\ ~Aborted(calls[i]) => calls[i].out = PyStr(_clean_text(calls[i].text.s))
              /\ calls[i].at > 0 => EntryOf(calls[i])

\* a mapping with the name read after its preprocessing failed, and without
\* the age, whose crop failed
C29_Witness ==
    /\ Extracted /\ Len(calls) = 4
    /\ calls[1].kind = <<"_preprocess_image">>
    /\ calls[2].kind = <<"crop">>
    /\ DOMAIN profile_info = {"name"}
    /\ profile_info["name"] = <<"A","l","e","x">>

(***************************************************************************)
(* The deal breaker named by the fallback analysis                         *)
(***************************************************************************)
\* the configured deal breakers that occur in the text, by their place in
\* the criteria
Occurring ==
    {i \in DOMAIN criteria.deal_breakers :
        Contains(Lower(criteria.deal_breakers[i]), Lower(profile_text))}
\* the first place of the text at which the term stands
FirstAt(term) ==
    CHOOSE k \in 1..Len(profile_text) :
        /\ k + Len(term) - 1 <= Len(profile_text)
        /\ Lower(SubSeq(profile_text, k, k + Len(term) - 1)) = Lower(term)
        /\ \A h \in 1..(k - 1) :
              Lower(SubSeq(profile_text, h, h + Len(term) - 1)) # Lower(term)

\* C30: when configured deal breakers occur in the profile text, the
\* fallback Decision is 'pass' and its reason names the occurring one that
\* comes first in the criteria's list, wherever the terms stand in the text.
C30_FirstInCriteriaOrder ==
    pc = "done" /\ profile_text # NoneText /\ Occurring # {} =>
        \E first \in Occurring :
           /\ \A i \in Occurring : first <= i
           /\ decision.action = PyStr(s_pass)
           /\ decision.reason = PyStr(s_deal_breaker_found \o criteria.deal_breakers[first])

\* two deal breakers occur, and the second of the criteria stands earlier in
\* the text than the first, which is the one named
C30_Witness ==
    /\ pc = "done"
    /\ Occurring = {1, 2}
    /\ FirstAt(criteria.deal_breakers[2]) < FirstAt(criteria.deal_breakers[1])
    /\ decision.reason = PyStr(s_deal_breaker_found \o criteria.deal_breakers[1])

(***************************************************************************)
(* The cleaning of the OCR text                                            *)
(***************************************************************************)
IsWs(c) == c \in WsChars
NotWs(c) == c \notin WsChars
\* the places at which a word of s begins
WordStarts(s) == {i \in DOMAIN s : NotWs(s[i]) /\ (i = 1 \/ IsWs(s[i - 1]))}
\* '0' read as 'O' and '|' as 'I'
Substituted(s) == [i \in DOMAIN s |-> IF s[i] = "0" THEN "O" ELSE IF s[i] = "|" THEN "I" ELSE s[i]]

\* the cleaned text holds the characters of the words of the text, with the
\* two substitutions, and one space between two words and nowhere else
C31_Cleaned ==
    /\ \A i \in DOMAIN profile_text : profile_text[i] \notin {"0", "|", "\n", "\t", "\r"}
    /\ SelectSeq(profile_text, NotWs) = Substituted(SelectSeq(ocr_text, NotWs))
    /\ Len(SelectSeq(profile_text, IsWs)) =
          IF WordStarts(ocr_text) = {} THEN 0 ELSE Cardinality(WordStarts(ocr_text)) - 1
    /\ WordStarts(profile_text) # {} =>
          NotWs(profile_text[1]) /\ NotWs(profile_text[Len(profile_text)])
    /\ \A i \in DOMAIN profile_text :
          i > 1 /\ IsWs(profile_text[i]) => NotWs(profile_text[i - 1])

\* C31: _clean_text replaces every '0' by 'O' and every '|' by 'I' and
\* leaves one space for every run of whitespace between two words (none at
\* the ends), so its result holds no '0', no '|' and no newline; cleaning
\* the cleaned text gives the same text.
C31_CleanTextNormalizes ==
    /\ pc = "cleaned" => C31_Cleaned
    /\ pc = "cleaned_again" => profile_text = ocr_text

\* a text with both characters and a run of a space and a newline
C31_Witness ==
    /\ pc = "cleaned"
    /\ ocr_text = <<"0", " ", "\n", "|">>
    /\ profile_text = <<"O", " ", "I">>

(***************************************************************************)
(* The navigation swipes                                                   *)
(***************************************************************************)
Swipes == CallsOf("swipe")
\* the end points of the claim for the swipe recorded at i
SwipeEnds(i, from, to) ==
    /\ TruncatedPercent(calls[i].args[1], screen_width, from)
    /\ TruncatedPercent(calls[i].args[2], screen_height, 50)
    /\ TruncatedPercent(calls[i].args[3], screen_width, to)
    /\ TruncatedPercent(calls[i].args[4], screen_height, 50)

C32_Swipes ==
    /\ \A i \in Swipes :
          /\ IF calls[i].kind = s_next THEN SwipeEnds(i, 80, 20)
             ELSE calls[i].kind = s_previous /\ SwipeEnds(i, 20, 80)
          /\ calls[i].ok <=> (i < Len(calls) /\ calls[i + 1].op = "sleep")
          /\ calls[i].ok => /\ calls[i].at > 0
                            /\ shell_log[calls[i].at].cmd = "swipe"
                            /\ shell_log[calls[i].at].args =
                                  calls[i].args \o <<DefaultDuration>>
    /\ \A i \in CallsOf("sleep") : i > 1 /\ calls[i - 1].op = "swipe" /\ calls[i - 1].ok
    /\ Len(shell_log) <= Cardinality(Swipes)

\* a call makes one swipe and returns what the device manager returned
C32_OneSwipe ==
    Cardinality(Swipes') = Cardinality(Swipes) + 1 =>
        /\ Len(shell_log') <= Len(shell_log) + 1
        /\ \E i \in Swipes' : /\ \A j \in Swipes' : j <= i
                              /\ result' = PyBool(calls'[i].ok)

Did(op) == Len(calls') = Len(calls) + 1 /\ calls'[Len(calls')].op = op

\* C33 as stated: after update_criteria(c) the criteria that later
\* evaluations use and that get_criteria returns are exactly c, no key of
\* the previous criteria staying unless c has it.
C33_Replaced ==
    /\ Did("update_criteria") => criteria' = new_criteria'
    /\ Did("get_criteria") /\ CallsOf("update_criteria") # {} => got_criteria' = new_criteria

C33_ReplacedWholesale == [][C33_Replaced]_vars

C33_Merged ==
    /\ Did("update_criteria") =>
          /\ DOMAIN criteria' = DOMAIN criteria \cup DOMAIN new_criteria'
          /\ \A k \in DOMAIN new_criteria' : criteria'[k] = new_criteria'[k]
          /\ \A k \in DOMAIN criteria \ DOMAIN new_criteria' : criteria'[k] = criteria[k]
    /\ ~Did("update_criteria") => criteria' = criteria
    /\ Did("get_criteria") => got_criteria' = criteria
    /\ Did("_fallback_analysis") => decision' = _fallback_analysis(criteria, profile_text)

\* C33, amended: after update_criteria(c) the criteria have the keys of c
\* with the values of c and every other key of the previous criteria with
\* the value it had; later evaluations use these criteria and get_criteria
\* returns them.
C33_UpdateMerges == [][C33_Merged]_vars

\* ages replaced while the interests and deal-breakers stayed, then read
\* back and used by an evaluation
C33_Witness ==
    /\ new_criteria = [min_age |-> 22, max_age |-> 27]
    /\ criteria = [min_age |-> 22, max_age |-> 27,
                   preferred_interests |-> <<<<"a">>, <<"B">>>>,
                   deal_breakers |-> <<<<"7">>>>]
    /\ got_criteria = criteria
    /\ calls[Len(calls)].op = "_fallback_analysis"
    /\ decision.action = PyStr(s_pass)

(***************************************************************************)
(* The criteria and the configuration over the cycles                      *)
(***************************************************************************)
\* the steps of run after setup leave what setup made of the configuration
C34_Frame ==
    pc # "run" => /\ criteria' = criteria
                  /\ bot_delay' = bot_delay
                  /\ openai_client' = openai_client
                  /\ ui_client' = ui_client

\* the Decision analyze_profile returned: read from the answer of this
\* cycle's request, or made by the fallback analysis of this cycle's text
C34_FromInputs ==
    pc = "done" =>
        \/ /\ openai_client /\ requests # <<>> /\ response_text # NoneText
           /\ decision = _parse_ai_response(response_text)
        \/ decision = _fallback_analysis(criteria, profile_text)

\* a cycle begins with nothing left of the cycle before
C34_NothingKept == pc = "capture" => IterationIdle

\* C34: analyze_profile on every path, generate_comment and
\* execute_decision leave the criteria and the configuration as setup made
\* them, over any number of cycles, and the Decision of a cycle is a
\* function of the text, the screenshot and the AI answers of that cycle
\* and of the criteria.
C34_CriteriaAndConfigurationKept ==
    /\ [](C34_FromInputs /\ C34_NothingKept)
    /\ [][C34_Frame]_vars

\* a pass made by the fallback analysis on a deal-breaker and carried out,
\* the criteria with their deal-breakers still in place
C34_Witness ==
    /\ pc = "executed"
    /\ ~openai_client
    /\ decision.action = PyStr(s_pass)
    /\ result = PyBool(TRUE)
    /\ criteria = LoopCriteria(<<<<"A","l","e","x">>, <<"4","o">>>>)
    /\ bot_delay = DefaultBotDelay

(***************************************************************************)
(* Ages written with the digit 0, after the cleaning                       *)
(***************************************************************************)
\* a two-digit value written with the digit 0
HasZero(age) == age < 10 \/ age % 10 = 0
\* every stand-alone two-digit number that image_to_string read has a 0
OnlyZeroAges == \A age \in TwoDigitTokens(ocr_text) : HasZero(age)

\* C35: the text passes through _clean_text before the fallback analysis,
\* so the age check of the loop never sees a two-digit number written with
\* the digit 0; a profile whose only two-digit numbers have a 0 passes the
\* age check whatever min_age and max_age are, and with two or more
\* interest matches and no deal breaker the pipeline without AI likes it,
\* also when that age is out of range.
C35_ZeroAgesUnseen ==
    /\ pc \in {"analyze_profile", "fallback", "done"} =>
          \A age \in TwoDigitTokens(profile_text) : ~HasZero(age)
    /\ pc = "done" /\ OnlyZeroAges =>
          /\ requests = <<>>
          /\ age_match \in {<<>>, <<TRUE>>}
          /\ ~HasDealBreaker => age_match = <<TRUE>>
          /\ InterestCount >= 2 /\ ~HasDealBreaker => decision.action = PyStr(s_like)

\* 'a 30' under min_age 22 and max_age 27: liked
C35_Witness ==
    /\ pc = "done"
    /\ ocr_text = <<"a", " ", "3", "0">>
    /\ profile_text = <<"a", " ", "3", "O">>
    /\ criteria.min_age = 22 /\ criteria.max_age = 27 /\ criteria.deal_breakers = <<>>
    /\ age_match = <<TRUE>>
    /\ decision.action = PyStr(s_like)

(***************************************************************************)
(* Requests without a credential                                           *)
(***************************************************************************)
\* the calls of the detector that sent a request to the vision model
AskedCalls == {i \in DOMAIN calls : calls[i].asked}
NoCredential == pc # "run" /\ ~openai_client

\* C36: with no openai_api_key configured no request goes to the AI
\* collaborator in any cycle of the loop: is_profile_screen, the lookups of
\* the five kinds, analyze_profile and generate_comment all take their
\* fallback.
C36_NoRequestWithoutCredential ==
    NoCredential =>
        /\ ~ui_client
        /\ requests = <<>>
        /\ AskedCalls = {}
        /\ \A i \in CallsOf("generate_comment") :
              ~calls[i].ok /\ calls[i].out = PyStr(s_caught_attention)
        /\ pc \in {"done", "execute_decision"} =>
              decision = _fallback_analysis(criteria, profile_text)

\* a comment carried out to the send button without a credential: the
\* classification, the Decision and the three lookups were all made locally
C36_Witness ==
    /\ NoCredential /\ pc = "executed" /\ result = PyBool(TRUE)
    /\ CallsOf("is_profile_screen") # {}
    /\ CallsOf("analyze_profile") # {}
    /\ \A btype \in {s_comment, s_text_input, s_send} : LookupsOf(btype) # {}
    /\ bot_delay = DefaultBotDelay

\* the same for a like and for a pass
C36_WitnessLikePass ==
    NoCredential /\ pc = "executed" /\ LookupsOf(s_like) \cup LookupsOf(s_pass) # {}

(***************************************************************************)
(* The screenshot of the lookups                                           *)
(***************************************************************************)
\* the lookups and the text extraction execute_decision has made
ExecutorReads ==
    {i \in CallsOf("find") \cup CallsOf("extract_text") : \E h \in Handed : h < i}

C37_OneScreenshot ==
    Executing =>
        /\ Cardinality(Captures) = 1
        /\ \A c \in Captures :
              /\ calls[c].ok /\ screenshot_path = PyStr(s_png)
              /\ \A h \in Handed : c < h
        /\ \A i \in ExecutorReads : calls[i].text = screenshot_path

\* execute_decision leaves the screenshot and its file as they were captured
C37_Kept ==
    Executing /\ Executing' =>
        /\ screenshot_path' = screenshot_path
        /\ image' = image
        /\ ocr_text' = ocr_text
        /\ Captures' = Captures

\* C37: execute_decision captures no screenshot; every lookup of a
\* Decision, the text-input and send-button lookups made after the tap on
\* the comment button included, is made on the one screenshot that was
\* captured before analyze_profile made the Decision.
C37_LookupsOnOneScreenshot == []C37_OneScreenshot /\ [][C37_Kept]_vars

\* the send button looked up after the taps on the comment button and on
\* the text input, all on the screenshot of the iteration
C37_Witness ==
    /\ pc = "executed" /\ result = PyBool(TRUE)
    /\ \E c \in LookupsOf(s_comment), t \in CallsOf("tap"), i \in LookupsOf(s_text_input),
          s \in LookupsOf(s_send) :
          c < t /\ t < i /\ i < s /\ calls[t].ok /\ calls[s].text = PyStr(s_png)
    /\ Cardinality(Captures) = 1

(***************************************************************************)
(* A Decision with an action the executor does not know                    *)
(***************************************************************************)
UnknownAction == decision.action \notin {PyStr(s_like), PyStr(s_pass), PyStr(s_comment)}

C38_NothingDone ==
    UnknownAction =>
        /\ pc \in {"execute_decision", "executed"}
        /\ calls = <<>> /\ shell_log = <<>> /\ requests = <<>>
        /\ comment = PyNone
        /\ pc = "executed" => result = PyBool(FALSE)

\* the call returns in its one step
C38_Returns ==
    UnknownAction /\ pc = "execute_decision" => pc' = "executed" /\ result' = PyBool(FALSE)

\* C38: execute_decision on a Decision whose action is none of like, pass
\* and comment returns False, with no lookup, no AI request and no device
\* command made, and raises nothing.
C38_UnknownActionFails == []C38_NothingDone /\ [][C38_Returns]_vars

\* 'superlike' refused with a device connected and both clients at hand
C38_Witness ==
    /\ pc = "executed" /\ decision.action = PyStr(s_superlike)
    /\ result = PyBool(FALSE)
    /\ device /\ ui_client /\ openai_client
    /\ image.file = "image"

(***************************************************************************)
(* The device manager without a device                                     *)
(***************************************************************************)
DeviceOps == {"tap", "swipe", "input_text", "press_key", "capture_screenshot"}
\* a step that is one call of the device manager: the call it added
Called == Len(calls') = Len(calls) + 1 /\ calls'[Len(calls')].op \in DeviceOps
LastCall == calls'[Len(calls')]

C39_Refused ==
    ~device /\ Called =>
        /\ ~LastCall.ok /\ LastCall.at = 0
        /\ shell_log' = shell_log
        /\ ~device'
        /\ result' = IF LastCall.op = "capture_screenshot" THEN PyNone ELSE PyBool(FALSE)
        /\ LastCall.op = "capture_screenshot" => LastCall.out = PyNone

\* disconnect leaves no device and touches nothing else; without a device
\* it changes nothing at all
C39_Disconnected ==
    Disconnect =>
        /\ ~device'
        /\ UNCHANGED <<screen_width, screen_height, shell_log, calls, result>>
        /\ ~device => UNCHANGED vars

\* C39: with no device connected, before a connect that succeeds and after
\* a disconnect, tap, swipe, input_text and press_key return False and
\* capture_screenshot returns None, none of them forwarding a command;
\* disconnect can be repeated and the second one changes nothing.
C39_NoDeviceNoCommand ==
    /\ [](pc = "device" => ENABLED Disconnect)
    /\ [][C39_Refused /\ C39_Disconnected]_vars

\* a key pressed on the device, then, after disconnect, a capture refused
C39_Witness ==
    /\ ~device /\ Len(calls) = 2 /\ Len(shell_log) = 1
    /\ calls[1].op = "press_key" /\ calls[1].ok /\ calls[1].at = 1
    /\ calls[2].op = "capture_screenshot" /\ ~calls[2].ok /\ calls[2].at = 0
    /\ result = PyNone

====
